---- MODULE Spec2Model ----
(***************************************************************************)
(* dataZen: the data-quality pipeline (FileProcessor.createDataSummary,    *)
(* DataCleaner, DataAnalyzer) as a state machine over small tables.        *)
(*                                                                         *)
(* Cells are JavaScript values.  A cell is a record [k, s, v]:             *)
(*   k = "null" | "undef" | "str" | "num" | "bool"                         *)
(*   s = the characters of a string cell (a sequence of 1-char strings)    *)
(*   v = the value of a number cell (or 1/0 for true/false)                *)
(* Numbers are exact fractions [n, d] in lowest terms with d >= 0: 1/0 and *)
(* -1/0 are the infinities, 0/0 is NaN.  The inputs are short decimals of  *)
(* small magnitude, on which the double arithmetic of the program and      *)
(* exact arithmetic agree.                                                 *)
(***************************************************************************)
EXTENDS Integers, Sequences, FiniteSets, TLC

\* ------------------------------------------------------------------------
\* Bounds of the model
\* ------------------------------------------------------------------------
MaxRows == 3
MaxCols == 2

\* ------------------------------------------------------------------------
\* JavaScript numbers
\* ------------------------------------------------------------------------
Abs(i) == IF i < 0 THEN -i ELSE i

RECURSIVE GCD(_, _)
GCD(a, b) == IF b = 0 THEN a ELSE GCD(b, a % b)

NaN == [n |-> 0, d |-> 0]
Infinity == [n |-> 1, d |-> 0]

\* the fraction n/d in lowest terms with d >= 0; x/0 is +-Infinity, 0/0 NaN
Rat(n, d) ==
  IF n = 0 /\ d = 0 THEN NaN
  ELSE LET g == GCD(Abs(n), Abs(d))
           sg == IF d < 0 THEN -1 ELSE 1
       IN [n |-> (sg * n) \div g, d |-> (sg * d) \div g]

Int2Num(i) == [n |-> i, d |-> 1]
Zero == Int2Num(0)
One == Int2Num(1)

isNaN(a) == a.n = 0 /\ a.d = 0
isFinite(a) == a.d # 0

NumNeg(a) == [n |-> -a.n, d |-> a.d]
NumAdd(a, b) ==
  IF isNaN(a) \/ isNaN(b) THEN NaN
  ELSE IF ~isFinite(a) /\ ~isFinite(b) THEN (IF a = b THEN a ELSE NaN)
  ELSE LET g == GCD(a.d, b.d)
       IN Rat(a.n * (b.d \div g) + b.n * (a.d \div g), (a.d \div g) * b.d)
NumSub(a, b) == NumAdd(a, NumNeg(b))
NumMul(a, b) == IF isNaN(a) \/ isNaN(b) THEN NaN
                ELSE Rat(a.n * b.n, a.d * b.d)
NumDiv(a, b) == IF isNaN(a) \/ isNaN(b) THEN NaN
                ELSE LET sg == IF b.n < 0 THEN -1 ELSE 1
                     IN Rat(sg * a.n * b.d, sg * a.d * b.n)
\* every comparison with NaN is false
NumLt(a, b) ==
  /\ ~isNaN(a) /\ ~isNaN(b)
  /\ IF ~isFinite(a) /\ ~isFinite(b) THEN a.n < b.n
     ELSE a.n * b.d < b.n * a.d
NumLe(a, b) == ~isNaN(a) /\ ~isNaN(b) /\ (a = b \/ NumLt(a, b))
NumGt(a, b) == NumLt(b, a)
NumGe(a, b) == NumLe(b, a)
\* a === b on numbers
NumEq(a, b) == ~isNaN(a) /\ ~isNaN(b) /\ a = b
\* Math.abs
MathAbs(a) == [n |-> Abs(a.n), d |-> a.d]
\* Math.floor, Math.ceil (as integers; the argument is finite)
MathFloor(a) == a.n \div a.d
MathCeil(a) == -((-a.n) \div a.d)
\* truncation toward zero
MathTrunc(a) == IF a.n < 0 THEN MathCeil(a) ELSE MathFloor(a)

\* ------------------------------------------------------------------------
\* Characters and strings
\* ------------------------------------------------------------------------
Digits == <<"0", "1", "2", "3", "4", "5", "6", "7", "8", "9">>
Upper == <<"A", "B", "C", "D", "E", "F", "G", "H", "I", "J", "K", "L", "M",
           "N", "O", "P", "Q", "R", "S", "T", "U", "V", "W", "X", "Y", "Z">>
Lower == <<"a", "b", "c", "d", "e", "f", "g", "h", "i", "j", "k", "l", "m",
           "n", "o", "p", "q", "r", "s", "t", "u", "v", "w", "x", "y", "z">>
WhiteSpace == {" ", "\t", "\n", "\r"}

IsDigit(c) == \E i \in 1..10 : Digits[i] = c
DigitVal(c) == (CHOOSE i \in 1..10 : Digits[i] = c) - 1

\* String.prototype.toLowerCase
LowerChar(c) == IF \E i \in 1..26 : Upper[i] = c
                THEN Lower[CHOOSE i \in 1..26 : Upper[i] = c]
                ELSE c
toLowerCase(s) == [i \in 1..Len(s) |-> LowerChar(s[i])]

\* String.prototype.trim
RECURSIVE trimStart(_)
trimStart(s) == IF s # <<>> /\ Head(s) \in WhiteSpace THEN trimStart(Tail(s)) ELSE s
RECURSIVE trimEnd(_)
trimEnd(s) == IF s # <<>> /\ s[Len(s)] \in WhiteSpace
              THEN trimEnd(SubSeq(s, 1, Len(s) - 1)) ELSE s
trim(s) == trimEnd(trimStart(s))

\* String.prototype.includes
includes(s, kw) ==
  \E i \in 1..(Len(s) - Len(kw) + 1) : SubSeq(s, i, i + Len(kw) - 1) = kw

\* the number of digits of s starting at position i
RECURSIVE DigitRun(_, _)
DigitRun(s, i) == IF i <= Len(s) /\ IsDigit(s[i]) THEN 1 + DigitRun(s, i + 1) ELSE 0

\* the value of the len digits of s starting at position i
RECURSIVE DigitsValue(_, _, _)
DigitsValue(s, i, len) ==
  IF len = 0 THEN 0
  ELSE 10 * DigitsValue(s, i, len - 1) + DigitVal(s[i + len - 1])

RECURSIVE Pow10(_)
Pow10(k) == IF k = 0 THEN 1 ELSE 10 * Pow10(k - 1)

InfinityLiteral == <<"I", "n", "f", "i", "n", "i", "t", "y">>

\* the literal of s that starts at position p, after the sign if there is
\* one, with n1 integer digits, as [len, v]
DecimalLiteral(s, p, n1) ==
  LET inf == Len(s) >= p + 7 /\ SubSeq(s, p, p + 7) = InfinityLiteral
      dot == p + n1 <= Len(s) /\ s[p + n1] = "."
      n2 == IF dot THEN DigitRun(s, p + n1 + 1) ELSE 0
  IN IF inf
     THEN [len |-> p + 7, v |-> IF s[1] = "-" THEN NumNeg(Infinity) ELSE Infinity]
     ELSE IF n1 + n2 = 0 THEN [len |-> 0, v |-> NaN]
     ELSE [len |-> (p - 1) + n1 + (IF dot THEN 1 + n2 ELSE 0),
           v |-> Rat((IF s[1] = "-" THEN -1 ELSE 1)
                       * (DigitsValue(s, p, n1) * Pow10(n2)
                            + DigitsValue(s, p + n1 + 1, n2)),
                     Pow10(n2))]

\* The longest prefix of s that is a decimal literal
\*   [+-]? ( "Infinity" | digits+ ( "." digits* )? | "." digits+ )
\* as [len, v]; len = 0 when s starts with no literal.  Exponents and hex
\* literals are outside the model's strings.
DecimalPrefix(s) ==
  LET p == IF s # <<>> /\ s[1] \in {"+", "-"} THEN 2 ELSE 1
  IN DecimalLiteral(s, p, DigitRun(s, p))

\* parseFloat(string)
parseFloat(s) == DecimalPrefix(trimStart(s)).v

\* parseInt(string) with no radix
parseInt(s) ==
  LET t == trimStart(s)
      signed == t # <<>> /\ t[1] \in {"+", "-"}
      p == IF signed THEN 2 ELSE 1
      n1 == DigitRun(t, p)
      mag == Int2Num(DigitsValue(t, p, n1))
  IN IF n1 = 0 THEN NaN
     ELSE IF signed /\ t[1] = "-" THEN NumNeg(mag) ELSE mag

\* Number(string): the whole trimmed string must be a literal; "" is 0
StringToNumber(s) ==
  LET t == trim(s)
      pre == DecimalPrefix(t)
  IN IF t = <<>> THEN Zero
     ELSE IF pre.len = Len(t) THEN pre.v ELSE NaN

\* the decimal digits of a natural number
RECURSIVE NatToString(_)
NatToString(i) ==
  IF i < 10 THEN <<Digits[i + 1]>>
  ELSE NatToString(i \div 10) \o <<Digits[(i % 10) + 1]>>

\* the fractional digits of rem/d (0 <= rem < d), at most fuel of them
RECURSIVE FracDigits(_, _, _)
FracDigits(rem, d, fuel) ==
  IF rem = 0 \/ fuel = 0 THEN <<>>
  ELSE <<Digits[((rem * 10) \div d) + 1]>> \o FracDigits((rem * 10) % d, d, fuel - 1)

\* Number.prototype.toString (no exponent form: magnitudes are moderate)
NumberToString(a) ==
  IF isNaN(a) THEN <<"N", "a", "N">>
  ELSE IF ~isFinite(a)
       THEN (IF a.n < 0 THEN <<"-">> ELSE <<>>) \o InfinityLiteral
  ELSE LET m == Abs(a.n)
           ip == NatToString(m \div a.d)
           fp == FracDigits(m % a.d, a.d, 16)
       IN (IF a.n < 0 THEN <<"-">> ELSE <<>>) \o ip
          \o (IF fp = <<>> THEN <<>> ELSE <<".">> \o fp)

\* ------------------------------------------------------------------------
\* Cells
\* ------------------------------------------------------------------------
Null == [k |-> "null", s |-> <<>>, v |-> Zero]
Undefined == [k |-> "undef", s |-> <<>>, v |-> Zero]
Str(s) == [k |-> "str", s |-> s, v |-> Zero]
Num(a) == [k |-> "num", s |-> <<>>, v |-> a]
Bool(b) == [k |-> "bool", s |-> <<>>, v |-> IF b THEN One ELSE Zero]

\* a === b
StrictEq(a, b) ==
  /\ a.k = b.k
  /\ a.k = "str" => a.s = b.s
  /\ a.k = "num" => NumEq(a.v, b.v)
  /\ a.k = "bool" => a.v = b.v

\* Number(value)
Number(c) ==
  CASE c.k = "null" -> Zero
    [] c.k = "undef" -> NaN
    [] c.k = "bool" -> c.v
    [] c.k = "num" -> c.v
    [] c.k = "str" -> StringToNumber(c.s)

\* String(value)
String(c) ==
  CASE c.k = "null" -> <<"n", "u", "l", "l">>
    [] c.k = "undef" -> <<"u", "n", "d", "e", "f", "i", "n", "e", "d">>
    [] c.k = "bool" -> IF c.v = One THEN <<"t", "r", "u", "e">>
                       ELSE <<"f", "a", "l", "s", "e">>
    [] c.k = "num" -> NumberToString(c.v)
    [] c.k = "str" -> c.s

\* ------------------------------------------------------------------------
\* Dates
\* ------------------------------------------------------------------------
IsLeapYear(y) == (y % 4 = 0 /\ y % 100 # 0) \/ y % 400 = 0
DaysInMonth(y, m) ==
  IF m = 2 THEN (IF IsLeapYear(y) THEN 29 ELSE 28)
  ELSE IF m \in {4, 6, 9, 11} THEN 30 ELSE 31

\* days since 1970-01-01 of a civil date, and back
DaysFromCivil(y, m, d) ==
  LET yy == IF m <= 2 THEN y - 1 ELSE y
      era == yy \div 400
      yoe == yy - era * 400
      mp == IF m > 2 THEN m - 3 ELSE m + 9
      doy == (153 * mp + 2) \div 5 + d - 1
      doe == yoe * 365 + yoe \div 4 - yoe \div 100 + doy
  IN era * 146097 + doe - 719468

CivilFromDayOfYear(era, yoe, doy) ==
  LET mp == (5 * doy + 2) \div 153
      m == IF mp < 10 THEN mp + 3 ELSE mp - 9
  IN [y |-> yoe + era * 400 + (IF m <= 2 THEN 1 ELSE 0),
      m |-> m,
      d |-> doy - (153 * mp + 2) \div 5 + 1]
CivilFromYearOfEra(era, doe, yoe) ==
  CivilFromDayOfYear(era, yoe, doe - (365 * yoe + yoe \div 4 - yoe \div 100))
CivilFromDayOfEra(era, doe) ==
  CivilFromYearOfEra(era, doe,
    (doe - doe \div 1460 + doe \div 36524 - doe \div 146096) \div 365)
CivilFromDays(z0) ==
  CivilFromDayOfEra((z0 + 719468) \div 146097, (z0 + 719468) % 146097)

MsPerDay == 86400000

InvalidDate == [ok |-> FALSE, day |-> 0]

\* the day a host that accepts non-ISO date strings makes of one; which day
\* it is depends on the host and its time zone, the model keeps one
LegacyDay == DaysFromCivil(2001, 1, 1)

\* Date.parse(string), as the UTC day of the result.  The ECMAScript date
\* format YYYY-MM-DD is parsed as such.  Of any other string the standard
\* leaves the result to the host: a string without a digit is rejected by
\* every host, one with a digit is accepted iff legacy (the host's choice).
DateParseString(s, legacy) ==
  LET iso == /\ Len(s) = 10
             /\ DigitRun(s, 1) = 4 /\ s[5] = "-"
             /\ DigitRun(s, 6) = 2 /\ s[8] = "-"
             /\ DigitRun(s, 9) = 2
      y == DigitsValue(s, 1, 4)
      m == DigitsValue(s, 6, 2)
      d == DigitsValue(s, 9, 2)
  IN IF iso
     THEN IF m \in 1..12 /\ d \in 1..DaysInMonth(y, m)
          THEN [ok |-> TRUE, day |-> DaysFromCivil(y, m, d)]
          ELSE InvalidDate
     ELSE IF legacy /\ \E i \in 1..Len(s) : IsDigit(s[i])
          THEN [ok |-> TRUE, day |-> LegacyDay]
          ELSE InvalidDate

\* Date.parse(value): the argument is converted to a string first
DateParse(c, legacy) == DateParseString(String(c), legacy)

\* new Date(value): a string is parsed, any other value is a time in ms
NewDate(c, legacy) ==
  IF c.k = "str" THEN DateParseString(c.s, legacy)
  ELSE LET ms == Number(c)
       IN IF ~isFinite(ms) THEN InvalidDate
          ELSE [ok |-> TRUE, day |-> MathTrunc(ms) \div MsPerDay]

Pad(s, width) == IF Len(s) >= width THEN s
                 ELSE [i \in 1..(width - Len(s)) |-> "0"] \o s

\* date.toISOString().split('T')[0], for years 0..9999
ISODateString(day) ==
  LET c == CivilFromDays(day)
  IN Pad(NatToString(c.y), 4) \o <<"-">> \o Pad(NatToString(c.m), 2)
     \o <<"-">> \o Pad(NatToString(c.d), 2)

\* ------------------------------------------------------------------------
\* Sequences
\* ------------------------------------------------------------------------
Range(f) == {f[i] : i \in DOMAIN f}

\* Array.prototype.filter(...).length
Count(seq, P(_)) == Cardinality({i \in DOMAIN seq : P(seq[i])})

RECURSIVE Insert(_, _)
Insert(sorted, x) ==
  IF sorted = <<>> THEN <<x>>
  ELSE IF NumLt(x, Head(sorted)) THEN <<x>> \o sorted
  ELSE <<Head(sorted)>> \o Insert(Tail(sorted), x)

\* numbers.sort((a, b) => a - b); a NaN compares equal to every number
RECURSIVE SortNumbers(_)
SortNumbers(seq) ==
  IF seq = <<>> THEN <<>>
  ELSE Insert(SortNumbers(SubSeq(seq, 1, Len(seq) - 1)), seq[Len(seq)])

\* the distinct elements of seq in the order of their first occurrence:
\* the keys of a Map filled by seq.forEach
RECURSIVE Keys(_)
Keys(seq) ==
  IF seq = <<>> THEN <<>>
  ELSE LET init == Keys(SubSeq(seq, 1, Len(seq) - 1))
           x == seq[Len(seq)]
       IN IF x \in Range(init) THEN init ELSE Append(init, x)

\* Array.from(frequency.entries()).reduce((a, b) => a[1] > b[1] ? a : b)[0]
RECURSIVE ReduceMax(_, _, _)
ReduceMax(a, rest, seq) ==
  IF rest = <<>> THEN a
  ELSE LET b == Head(rest)
           ca == Count(seq, LAMBDA x : x = a)
           cb == Count(seq, LAMBDA x : x = b)
       IN ReduceMax(IF ca > cb THEN a ELSE b, Tail(rest), seq)

MostFrequent(seq) == LET ks == Keys(seq) IN ReduceMax(Head(ks), Tail(ks), seq)

\* ------------------------------------------------------------------------
\* DataCleaner
\* ------------------------------------------------------------------------
isMissing(value) ==
  \/ value.k = "null"
  \/ value.k = "undef"
  \/ (value.k = "str" /\ value.s = <<>>)
  \/ (value.k = "str" /\ trim(value.s) = <<>>)

\* a slip: the token n/a is left out
SentinelTokensWithoutNa ==
  { <<"n", "a">>, <<"u", "n", "k", "n", "o", "w", "n">>,
    <<"n", "u", "l", "l">>, <<"n", "o", "n", "e">>, <<"-">>, <<"-", "-">>,
    <<"?">>, <<"m", "i", "s", "s", "i", "n", "g">> }

SentinelTokens ==
  { <<"n", "/", "a">>, <<"n", "a">>, <<"u", "n", "k", "n", "o", "w", "n">>,
    <<"n", "u", "l", "l">>, <<"n", "o", "n", "e">>, <<"-">>, <<"-", "-">>,
    <<"?">>, <<"m", "i", "s", "s", "i", "n", "g">> }

priceKeywords ==
  { <<"p", "r", "i", "c", "e">>, <<"c", "o", "s", "t">>,
    <<"a", "m", "o", "u", "n", "t">>, <<"v", "a", "l", "u", "e">>,
    <<"f", "e", "e">>, <<"c", "h", "a", "r", "g", "e">>, <<"r", "a", "t", "e">>,
    <<"s", "a", "l", "a", "r", "y">>, <<"w", "a", "g", "e">>,
    <<"r", "e", "v", "e", "n", "u", "e">>, <<"i", "n", "c", "o", "m", "e">> }

quantityKeywords ==
  { <<"q", "u", "a", "n", "t", "i", "t", "y">>, <<"c", "o", "u", "n", "t">>,
    <<"n", "u", "m", "b", "e", "r">>, <<"q", "t", "y">>,
    <<"a", "m", "o", "u", "n", "t">>, <<"t", "o", "t", "a", "l">>,
    <<"s", "u", "m">>, <<"v", "o", "l", "u", "m", "e">>, <<"s", "i", "z", "e">>,
    <<"l", "e", "n", "g", "t", "h">>, <<"w", "i", "d", "t", "h">>,
    <<"h", "e", "i", "g", "h", "t">> }

dateKeywords ==
  { <<"d", "a", "t", "e">>, <<"t", "i", "m", "e">>,
    <<"c", "r", "e", "a", "t", "e", "d">>, <<"u", "p", "d", "a", "t", "e", "d">>,
    <<"m", "o", "d", "i", "f", "i", "e", "d">>,
    <<"t", "i", "m", "e", "s", "t", "a", "m", "p">>, <<"y", "e", "a", "r">>,
    <<"m", "o", "n", "t", "h">>, <<"d", "a", "y">> }

isPriceColumn(columnName) == \E keyword \in priceKeywords : includes(columnName, keyword)
isQuantityColumn(columnName) == \E keyword \in quantityKeywords : includes(columnName, keyword)
isDateColumn(columnName) == \E keyword \in dateKeywords : includes(columnName, keyword)

\* v !== null && v !== undefined && v !== ''
NotNullish(v) == v.k # "null" /\ v.k # "undef" /\ ~(v.k = "str" /\ v.s = <<>>)

\* !isNaN(Number(v)) && v !== null && v !== undefined && v !== ''
IsNumericValue(v) == ~isNaN(Number(v)) /\ NotNullish(v)

FourFifths == Rat(4, 5)

isPriceOrQuantityColumn(values) ==
  LET numericValues == SelectSeq(values, IsNumericValue)
      positiveValues == SelectSeq(numericValues, LAMBDA v : NumGe(Number(v), Zero))
  IN NumGt(Rat(Len(positiveValues), Len(numericValues)), FourFifths)

\* one cell of fixErroneousValues: the new value and whether it was counted
FixValue(value, values, columnType) ==
  LET stringValue == trim(toLowerCase(String(value)))
      numValue == Number(value)
  IN IF isMissing(value) THEN [value |-> value, fixed |-> FALSE]
     ELSE IF stringValue \in SentinelTokens THEN [value |-> Null, fixed |-> TRUE]
     ELSE IF /\ columnType = "numerical"
             /\ isPriceOrQuantityColumn(values)
             /\ ~isNaN(numValue)
             /\ NumLt(numValue, Zero)
          THEN [value |-> Num(MathAbs(numValue)), fixed |-> TRUE]
     ELSE [value |-> value, fixed |-> FALSE]

fixErroneousValues(values, columnType) ==
  LET fx == [i \in 1..Len(values) |-> FixValue(values[i], values, columnType)]
  IN [values |-> [i \in 1..Len(values) |-> fx[i].value],
      erroneousCount |-> Cardinality({i \in 1..Len(values) : fx[i].fixed})]

CurrencyChars == {",", "$", "€", "£", "¥"}

convertToFloat(values) ==
  [values |->
     [i \in 1..Len(values) |->
        LET value == values[i]
            stringValue == trim(SelectSeq(String(value), LAMBDA c : c \notin CurrencyChars))
            numValue == parseFloat(stringValue)
        IN IF isMissing(value) THEN value
           ELSE IF isNaN(numValue) THEN Null ELSE Num(numValue)],
   newType |-> "numerical", converted |-> TRUE]

\* a slip: a value that cannot be parsed is kept
convertToIntegerKeepingUnparsed(values) ==
  [values |->
     [i \in 1..Len(values) |->
        LET value == values[i]
            numValue == parseInt(SelectSeq(String(value), LAMBDA c : c # ","))
        IN IF isMissing(value) THEN value
           ELSE IF isNaN(numValue) THEN value ELSE Num(numValue)],
   newType |-> "numerical", converted |-> TRUE]

convertToInteger(values) ==
  [values |->
     [i \in 1..Len(values) |->
        LET value == values[i]
            numValue == parseInt(SelectSeq(String(value), LAMBDA c : c # ","))
        IN IF isMissing(value) THEN value
           ELSE IF isNaN(numValue) THEN Null ELSE Num(numValue)],
   newType |-> "numerical", converted |-> TRUE]

convertToDate(values, legacy) ==
  [values |->
     [i \in 1..Len(values) |->
        LET value == values[i]
            dateValue == NewDate(value, legacy)
        IN IF isMissing(value) THEN value
           ELSE IF ~dateValue.ok THEN Null ELSE Str(ISODateString(dateValue.day))],
   newType |-> "date", converted |-> TRUE]

\* a slip: the quantity keywords are tried before the price keywords
convertTypesQuantityFirst(values, column, legacy) ==
  LET columnName == toLowerCase(column.name)
  IN IF isQuantityColumn(columnName) THEN convertToInteger(values)
     ELSE IF isPriceColumn(columnName) THEN convertToFloat(values)
     ELSE IF isDateColumn(columnName) \/ column.type = "date"
          THEN convertToDate(values, legacy)
     ELSE [values |-> values, newType |-> column.type, converted |-> FALSE]

convertTypes(values, column, legacy) ==
  LET columnName == toLowerCase(column.name)
  IN IF isPriceColumn(columnName) THEN convertToFloat(values)
     ELSE IF isQuantityColumn(columnName) THEN convertToInteger(values)
     ELSE IF isDateColumn(columnName) \/ column.type = "date"
          THEN convertToDate(values, legacy)
     ELSE [values |-> values, newType |-> column.type, converted |-> FALSE]

\* values.map(v => Number(v))
NumbersOf(values) == [i \in 1..Len(values) |-> Number(values[i])]

\* a slip: the first of the sorted values is taken
ImputationSmallest(sortedValues) == sortedValues[1]

\* the median of the imputation, of the sorted numbers of the present values
ImputationMedian(sortedValues) ==
  IF Len(sortedValues) % 2 = 0
  THEN NumDiv(NumAdd(sortedValues[Len(sortedValues) \div 2],
                     sortedValues[Len(sortedValues) \div 2 + 1]),
              Int2Num(2))
  ELSE sortedValues[Len(sortedValues) \div 2 + 1]

imputationValueOf(nonMissingValues, columnType) ==
  CASE columnType = "numerical" ->
         Num(ImputationMedian(SortNumbers(NumbersOf(nonMissingValues))))
    [] columnType = "categorical" -> MostFrequent(nonMissingValues)
    [] OTHER ->
         Str(MostFrequent([i \in 1..Len(nonMissingValues) |->
                             String(nonMissingValues[i])]))

imputationMethodOf(columnType) ==
  CASE columnType = "numerical" -> "median"
    [] columnType = "categorical" -> "mode"
    [] columnType = "date" -> "most_frequent_date"
    [] OTHER -> "most_frequent_text"

\* a slip: the method of the column type is named when nothing can be imputed
imputeMissingValuesNamingMethod(values, columnType) ==
  LET nonMissingValues == SelectSeq(values, LAMBDA v : ~isMissing(v))
  IN IF Len(nonMissingValues) = 0
     THEN [values |-> values, imputedCount |-> 0,
           method |-> imputationMethodOf(columnType)]
     ELSE [values |-> [i \in 1..Len(values) |->
                         IF isMissing(values[i])
                         THEN imputationValueOf(nonMissingValues, columnType)
                         ELSE values[i]],
           imputedCount |-> Count(values, isMissing),
           method |-> imputationMethodOf(columnType)]

imputeMissingValues(values, columnType) ==
  LET nonMissingValues == SelectSeq(values, LAMBDA v : ~isMissing(v))
      imputationValue == imputationValueOf(nonMissingValues, columnType)
  IN IF Len(nonMissingValues) = 0
     THEN [values |-> values, imputedCount |-> 0, method |-> "no_imputation_possible"]
     ELSE [values |-> [i \in 1..Len(values) |->
                         IF isMissing(values[i]) THEN imputationValue ELSE values[i]],
           imputedCount |-> Count(values, isMissing),
           method |-> imputationMethodOf(columnType)]

\* a slip: the missing statistics of the input column are kept
ColumnResultKeepingMissing(column, totalRows, fixed, conv, imp) ==
  LET finalType == IF conv.converted THEN conv.newType ELSE column.type
  IN [cleanedColumn |->
        [name |-> column.name,
         type |-> finalType,
         values |-> imp.values,
         missingCount |-> column.missingCount,
         missingRate |-> column.missingRate],
      report |->
        [columnName |-> column.name,
         originalType |-> column.type,
         finalType |-> finalType,
         missingValuesImputed |-> imp.imputedCount,
         erroneousValuesFixed |-> fixed.erroneousCount,
         typeConverted |-> conv.converted,
         imputationMethod |-> imp.method]]

\* the column and the report that cleanColumn returns after its three steps
ColumnResult(column, totalRows, fixed, conv, imp) ==
  LET finalType == IF conv.converted THEN conv.newType ELSE column.type
      newMissingCount == Count(imp.values, isMissing)
  IN [cleanedColumn |->
        [name |-> column.name,
         type |-> finalType,
         values |-> imp.values,
         missingCount |-> newMissingCount,
         missingRate |-> Rat(newMissingCount, totalRows)],
      report |->
        [columnName |-> column.name,
         originalType |-> column.type,
         finalType |-> finalType,
         missingValuesImputed |-> imp.imputedCount,
         erroneousValuesFixed |-> fixed.erroneousCount,
         typeConverted |-> conv.converted,
         imputationMethod |-> imp.method]]

\* a slip: the values are imputed as they were before the conversion
ImputeStepBeforeConversion(column, totalRows, fixed, conv) ==
  ColumnResult(column, totalRows, fixed, conv,
               imputeMissingValues(fixed.values,
                                   IF conv.converted THEN conv.newType ELSE column.type))

\* step 3 of cleanColumn: impute missing values
ImputeStep(column, totalRows, fixed, conv) ==
  ColumnResult(column, totalRows, fixed, conv,
               imputeMissingValues(conv.values,
                                   IF conv.converted THEN conv.newType ELSE column.type))

\* step 2 of cleanColumn: convert types if needed
ConvertStep(column, totalRows, legacy, fixed) ==
  ImputeStep(column, totalRows, fixed, convertTypes(fixed.values, column, legacy))

\* step 1 of cleanColumn, fix erroneous values, and the steps after it
cleanColumn(column, totalRows, legacy) ==
  ConvertStep(column, totalRows, legacy,
              fixErroneousValues(column.values, column.type))

FlagColumnName ==
  <<"n", "e", "t", "t", "o", "y", "a", "g", "e", "_",
    "e", "f", "f", "e", "c", "t", "u", "e">>

\* a slip: each column overwrites the flags instead of adding to them
RECURSIVE MarkRowsOverwriting(_, _, _)
MarkRowsOverwriting(flags, cleanedColumns, columns) ==
  IF cleanedColumns = <<>> THEN flags
  ELSE MarkRowsOverwriting(
         [index \in DOMAIN flags |->
            /\ index \in DOMAIN Head(cleanedColumns).values
            /\ ~StrictEq(Head(cleanedColumns).values[index],
                         Head(columns).values[index])],
         Tail(cleanedColumns), Tail(columns))

\* the loop of cleanData over the columns: flags[i] is set once a cleaned
\* value at row i is not === the value of the input column there
RECURSIVE MarkRows(_, _, _)
MarkRows(flags, cleanedColumns, columns) ==
  IF cleanedColumns = <<>> THEN flags
  ELSE MarkRows([index \in DOMAIN flags |->
                   IF /\ index \in DOMAIN Head(cleanedColumns).values
                      /\ ~StrictEq(Head(cleanedColumns).values[index],
                                   Head(columns).values[index])
                   THEN TRUE ELSE flags[index]],
                Tail(cleanedColumns), Tail(columns))

RECURSIVE SumOf(_)
SumOf(seq) == IF seq = <<>> THEN 0 ELSE Head(seq) + SumOf(Tail(seq))

\* a slip: the column count of the input is kept
cleanedDataKeepingCount(d, cleanedColumns) ==
  [totalRows |-> d.totalRows,
   totalColumns |-> d.totalColumns,
   columns |-> cleanedColumns,
   fileName |-> d.fileName]

\* { ...data, totalColumns: data.totalColumns + 1, columns: cleanedColumns }
cleanedDataOf(d, cleanedColumns) ==
  [totalRows |-> d.totalRows,
   totalColumns |-> d.totalColumns + 1,
   columns |-> cleanedColumns,
   fileName |-> d.fileName]

\* cleanData after its loop over the columns: results[i] is what cleanColumn
\* returned for column i
cleanDataOfResults(d, results) ==
  LET cleanedColumns == [i \in 1..Len(results) |-> results[i].cleanedColumn]
      columnReports == [i \in 1..Len(results) |-> results[i].report]
      flags == MarkRows([i \in 1..d.totalRows |-> FALSE], cleanedColumns, d.columns)
      cleaningFlagColumn ==
        [name |-> FlagColumnName,
         type |-> "categorical",
         values |-> [i \in 1..d.totalRows |-> Bool(flags[i])],
         missingCount |-> 0,
         missingRate |-> Zero]
  IN [cleanedData |-> cleanedDataOf(d, Append(cleanedColumns, cleaningFlagColumn)),
      report |->
        [totalRowsCleaned |-> Cardinality({i \in 1..d.totalRows : flags[i]}),
         columnReports |-> columnReports,
         summary |->
           [missingValuesImputed |->
              SumOf([i \in 1..Len(columnReports) |-> columnReports[i].missingValuesImputed]),
            erroneousValuesFixed |->
              SumOf([i \in 1..Len(columnReports) |-> columnReports[i].erroneousValuesFixed]),
            typesConverted |->
              Cardinality({i \in 1..Len(columnReports) : columnReports[i].typeConverted})]]]

cleanData(d, legacy) ==
  cleanDataOfResults(d, [i \in 1..Len(d.columns) |->
                         cleanColumn(d.columns[i], d.totalRows, legacy)])

\* ------------------------------------------------------------------------
\* FileProcessor
\* ------------------------------------------------------------------------
OneHalf == Rat(1, 2)
MaxCategories == 20

detectColumnType(values, legacy) ==
  LET numericValues == SelectSeq(values, LAMBDA v : ~isNaN(Number(v))
                                                   /\ ~(v.k = "str" /\ v.s = <<>>))
      numericRatio == Rat(Len(numericValues), Len(values))
      dateValues == SelectSeq(values, LAMBDA v : DateParse(v, legacy).ok)
      dateRatio == Rat(Len(dateValues), Len(values))
      uniqueValues == Cardinality(Range(values))
      uniqueRatio == Rat(uniqueValues, Len(values))
  IN IF Len(values) = 0 THEN "text"
     ELSE IF NumGt(numericRatio, FourFifths) THEN "numerical"
     ELSE IF NumGt(dateRatio, FourFifths) THEN "date"
     ELSE IF NumLt(uniqueRatio, OneHalf) /\ uniqueValues < MaxCategories THEN "categorical"
     ELSE "text"

\* data is the sequence of rows, each as long as headers
createDataSummary(headers, rows, legacy) ==
  [totalRows |-> Len(rows),
   totalColumns |-> Len(headers),
   columns |->
     [index \in 1..Len(headers) |->
        LET values == [r \in 1..Len(rows) |-> rows[r][index]]
            nonNullValues == SelectSeq(values, NotNullish)
            missingCount == Len(values) - Len(nonNullValues)
        IN [name |-> headers[index],
            type |-> detectColumnType(nonNullValues, legacy),
            values |-> values,
            missingCount |-> missingCount,
            missingRate |-> Rat(missingCount, Len(values))]],
   fileName |-> "file"]

\* ------------------------------------------------------------------------
\* DataAnalyzer
\* ------------------------------------------------------------------------
\* floor(p * 10^k / q) and the remainder, by long division (p >= 0, q > 0)
RECURSIVE LongDiv(_, _, _)
LongDiv(p, q, k) ==
  IF k = 0 THEN [quot |-> p \div q, rem |-> p % q]
  ELSE LET r == LongDiv(p, q, k - 1)
       IN [quot |-> 10 * r.quot + (10 * r.rem) \div q, rem |-> (10 * r.rem) % q]

\* the largest r in lo..hi with r * r <= n
RECURSIVE ISqrtBetween(_, _, _)
ISqrtBetween(n, lo, hi) ==
  IF lo >= hi THEN lo
  ELSE LET mid == (lo + hi + 1) \div 2
       IN IF mid * mid <= n THEN ISqrtBetween(n, mid, hi)
          ELSE ISqrtBetween(n, lo, mid - 1)
ISqrt(n) == ISqrtBetween(n, 0, IF n < 46340 THEN n ELSE 46340)

\* Number(a.toFixed(digits)): the nearest multiple of 10^-digits, a tie
\* going away from zero
toFixed(a, digits) ==
  IF ~isFinite(a) THEN a
  ELSE LET m == Abs(a.n)
           k == (2 * m * Pow10(digits) + a.d) \div (2 * a.d)
       IN Rat((IF a.n < 0 THEN -k ELSE k), Pow10(digits))

\* Number(Math.sqrt(a).toFixed(digits)) for a >= 0: the k with
\* (2k - 1)^2 <= 4 * 10^(2 digits) * a < (2k + 1)^2, over 10^digits
SqrtToFixed(a, digits) ==
  IF ~isFinite(a) THEN a
  ELSE LET f4 == LongDiv(4 * a.n, a.d, 2 * digits).quot
       IN Rat((ISqrt(f4) + 1) \div 2, Pow10(digits))

RECURSIVE NumSum(_)
NumSum(seq) == IF seq = <<>> THEN Zero ELSE NumAdd(NumSum(SubSeq(seq, 1, Len(seq) - 1)),
                                                  seq[Len(seq)])

calculateMedian(sortedValues) ==
  LET mid == Len(sortedValues) \div 2
  IN IF Len(sortedValues) % 2 = 0
     THEN NumDiv(NumAdd(sortedValues[mid], sortedValues[mid + 1]), Int2Num(2))
     ELSE sortedValues[mid + 1]

\* a slip: the value at the lower rank is taken without interpolation
InterpolateLower(sortedValues, index) == sortedValues[MathFloor(index) + 1]

\* calculatePercentile from its index on
Interpolate(sortedValues, index) ==
  LET lower == MathFloor(index)
      upper == MathCeil(index)
      weight == NumSub(index, Int2Num(lower))
  IN IF lower = upper THEN sortedValues[lower + 1]
     ELSE NumAdd(NumMul(sortedValues[lower + 1], NumSub(One, weight)),
                 NumMul(sortedValues[upper + 1], weight))

calculatePercentile(sortedValues, percentile) ==
  Interpolate(sortedValues,
              NumMul(Rat(percentile, 100), Int2Num(Len(sortedValues) - 1)))

OneAndHalf == Rat(3, 2)

\* calculateNumericalStats from its filtered and converted values on
StatsOfNumbers(numericValues) ==
  LET sorted == SortNumbers(numericValues)
      len == Int2Num(Len(numericValues))
      mean == NumDiv(NumSum(numericValues), len)
      median == calculateMedian(sorted)
      variance == NumDiv(NumSum([i \in 1..Len(numericValues) |->
                                   NumMul(NumSub(numericValues[i], mean),
                                          NumSub(numericValues[i], mean))]), len)
      q1 == calculatePercentile(sorted, 25)
      q3 == calculatePercentile(sorted, 75)
      iqr == NumSub(q3, q1)
      outliers == SelectSeq(numericValues, LAMBDA val :
                    \/ NumLt(val, NumSub(q1, NumMul(OneAndHalf, iqr)))
                    \/ NumGt(val, NumAdd(q3, NumMul(OneAndHalf, iqr))))
  IN IF Len(numericValues) = 0
     THEN [mean |-> Zero, median |-> Zero, std |-> Zero, min |-> Zero, max |-> Zero,
           q1 |-> Zero, q3 |-> Zero, outliers |-> <<>>]
     ELSE [mean |-> toFixed(mean, 2),
           median |-> toFixed(median, 2),
           std |-> SqrtToFixed(variance, 2),
           min |-> sorted[1],
           max |-> sorted[Len(sorted)],
           q1 |-> toFixed(q1, 2),
           q3 |-> toFixed(q3, 2),
           outliers |-> outliers]

calculateNumericalStats(values) ==
  StatsOfNumbers(NumbersOf(SelectSeq(values, IsNumericValue)))

TopValuesLimit == 10

\* entries.sort((a, b) => b[1] - a[1]): stable, by descending count
RECURSIVE InsertEntry(_, _)
InsertEntry(sorted, e) ==
  IF sorted = <<>> THEN <<e>>
  ELSE IF e.count > Head(sorted).count THEN <<e>> \o sorted
  ELSE <<Head(sorted)>> \o InsertEntry(Tail(sorted), e)
RECURSIVE SortEntries(_)
SortEntries(entries) ==
  IF entries = <<>> THEN <<>>
  ELSE InsertEntry(SortEntries(SubSeq(entries, 1, Len(entries) - 1)),
                   entries[Len(entries)])

calculateCategoricalStats(values) ==
  LET nonNullValues == SelectSeq(values, NotNullish)
      strings == [i \in 1..Len(nonNullValues) |-> String(nonNullValues[i])]
      keys == Keys(strings)
      entries == [i \in 1..Len(keys) |->
                    [value |-> keys[i],
                     count |-> Count(strings, LAMBDA x : x = keys[i])]]
      sorted == SortEntries(entries)
      top == SubSeq(sorted, 1, IF Len(sorted) < TopValuesLimit THEN Len(sorted)
                               ELSE TopValuesLimit)
  IN [uniqueCount |-> Len(keys),
      topValues |-> [i \in 1..Len(top) |->
                       [value |-> top[i].value,
                        count |-> top[i].count,
                        percentage |->
                          toFixed(NumMul(Rat(top[i].count, Len(nonNullValues)),
                                         Int2Num(100)), 1)]]]

\* the optional fields numerical and categorical are <<>> or <<stats>>
generateColumnStats(d) ==
  [i \in 1..Len(d.columns) |->
     LET column == d.columns[i]
     IN [name |-> column.name,
         type |-> column.type,
         numerical |-> IF column.type = "numerical"
                       THEN <<calculateNumericalStats(column.values)>> ELSE <<>>,
         categorical |-> IF column.type = "categorical"
                         THEN <<calculateCategoricalStats(column.values)>> ELSE <<>>]]

\* a slip: the factor n of the numerator is left out
PearsonNumeratorWithoutN(n, sumX, sumY, sumXY) ==
  NumSub(sumXY, NumMul(sumX, sumY))

\* n * sumXY - sumX * sumY
PearsonNumerator(n, sumX, sumY, sumXY) ==
  NumSub(NumMul(n, sumXY), NumMul(sumX, sumY))

\* the coefficient from the sums over the pairs
PearsonOfSums(n, sumX, sumY, sumXY, sumX2, sumY2) ==
  LET numerator == PearsonNumerator(n, sumX, sumY, sumXY)
      \* the square of the denominator
      radicand == NumMul(NumSub(NumMul(n, sumX2), NumMul(sumX, sumX)),
                         NumSub(NumMul(n, sumY2), NumMul(sumY, sumY)))
      \* |numerator / Math.sqrt(radicand)| = Math.sqrt(numerator^2 / radicand)
      magnitude == SqrtToFixed(NumDiv(NumMul(numerator, numerator), radicand), 3)
  IN IF radicand = Zero THEN Zero
     ELSE IF isNaN(numerator) \/ isNaN(radicand) THEN NaN
     ELSE IF ~isFinite(radicand) THEN (IF isFinite(numerator) THEN Zero ELSE NaN)
     ELSE IF ~isFinite(numerator) THEN numerator
     ELSE IF numerator.n < 0 THEN NumNeg(magnitude) ELSE magnitude

\* the coefficient of the pairs (a sequence of <<a, b>>) that passed the filter
PearsonOfPairs(pairs) ==
  IF Len(pairs) < 2 THEN Zero
  ELSE PearsonOfSums(
         Int2Num(Len(pairs)),
         NumSum([i \in 1..Len(pairs) |-> pairs[i][1]]),
         NumSum([i \in 1..Len(pairs) |-> pairs[i][2]]),
         NumSum([i \in 1..Len(pairs) |-> NumMul(pairs[i][1], pairs[i][2])]),
         NumSum([i \in 1..Len(pairs) |-> NumMul(pairs[i][1], pairs[i][1])]),
         NumSum([i \in 1..Len(pairs) |-> NumMul(pairs[i][2], pairs[i][2])]))

calculatePearsonCorrelation(x, y) ==
  LET all == [i \in 1..Len(x) |->
                <<Number(x[i]), IF i \in DOMAIN y THEN Number(y[i]) ELSE NaN>>]
      pairs == SelectSeq(all, LAMBDA pr : ~isNaN(pr[1]) /\ ~isNaN(pr[2]))
  IN PearsonOfPairs(pairs)

\* a slip: the coefficient of a column with itself is computed, not assigned
calculateCorrelationsComputingDiagonal(d) ==
  LET numericalColumns == SelectSeq(d.columns, LAMBDA col : col.type = "numerical")
      names == {numericalColumns[i].name : i \in 1..Len(numericalColumns)}
      last(name) == numericalColumns[CHOOSE i \in 1..Len(numericalColumns) :
                      /\ numericalColumns[i].name = name
                      /\ \A j \in (i + 1)..Len(numericalColumns) :
                           numericalColumns[j].name # name]
  IN [name1 \in names |->
        [name2 \in names |->
           calculatePearsonCorrelation(last(name1).values, last(name2).values)]]

\* correlations[name1][name2]; an object keeps the last value assigned to a
\* key, so a name stands for the last numerical column that bears it
calculateCorrelations(d) ==
  LET numericalColumns == SelectSeq(d.columns, LAMBDA col : col.type = "numerical")
      names == {numericalColumns[i].name : i \in 1..Len(numericalColumns)}
      last(name) == numericalColumns[CHOOSE i \in 1..Len(numericalColumns) :
                      /\ numericalColumns[i].name = name
                      /\ \A j \in (i + 1)..Len(numericalColumns) :
                           numericalColumns[j].name # name]
  IN [name1 \in names |->
        [name2 \in names |->
           IF name1 = name2 THEN One
           ELSE calculatePearsonCorrelation(last(name1).values, last(name2).values)]]

\* a slip: the threshold of the missing rate is 0.4
TwoFifths == Rat(2, 5)

ThreeTenths == Rat(3, 10)
OneFifth == Rat(1, 5)
OneTenth == Rat(1, 10)
OneTwentieth == Rat(1, 20)
SevenTenths == Rat(7, 10)

\* An anomaly is [type, severity, column, count]; count is <<>> when the
\* code leaves it out.  The title and description texts are not modelled.
detectAnomalies(d, columnStats) ==
  LET missing ==
        [i \in 1..Len(d.columns) |->
           IF NumGt(d.columns[i].missingRate, ThreeTenths)
           THEN <<[type |-> "missing_values",
                   severity |-> IF NumGt(d.columns[i].missingRate, OneHalf)
                                THEN "high" ELSE "medium",
                   column |-> d.columns[i].name,
                   count |-> <<d.columns[i].missingCount>>]>>
           ELSE <<>>]
      outlier ==
        [i \in 1..Len(columnStats) |->
           IF columnStats[i].numerical # <<>>
              /\ Len(columnStats[i].numerical[1].outliers) > 0
           THEN LET count == Len(columnStats[i].numerical[1].outliers)
                    outlierRate == Rat(count, d.totalRows)
                IN <<[type |-> "outlier",
                      severity |-> IF NumGt(outlierRate, OneTenth) THEN "high"
                                   ELSE IF NumGt(outlierRate, OneTwentieth) THEN "medium"
                                   ELSE "low",
                      column |-> columnStats[i].name,
                      count |-> <<count>>]>>
           ELSE <<>>]
      duplicate ==
        [i \in 1..Len(d.columns) |->
           LET values == SelectSeq(d.columns[i].values, NotNullish)
               uniqueValues == Cardinality(Range(values))
               duplicateRate == NumSub(One, Rat(uniqueValues, Len(values)))
           IN IF NumGt(duplicateRate, FourFifths) /\ d.columns[i].type # "categorical"
              THEN <<[type |-> "duplicate_values",
                      severity |-> "medium",
                      column |-> d.columns[i].name,
                      count |-> <<>>]>>
              ELSE <<>>]
      Flatten[k \in 0..Len(d.columns), part \in {"m", "o", "d"}] ==
        IF k = 0 THEN <<>>
        ELSE Flatten[k - 1, part] \o (CASE part = "m" -> missing[k]
                                        [] part = "o" -> outlier[k]
                                        [] part = "d" -> duplicate[k])
  IN Flatten[Len(d.columns), "m"] \o Flatten[Len(d.columns), "o"]
     \o Flatten[Len(d.columns), "d"]

\* a slip: the threshold of a strong correlation is 0.9
StrongCorrelationsAboveNineTenths(correlations) ==
  {pr \in (DOMAIN correlations) \X (DOMAIN correlations) :
     /\ pr[1] # pr[2]
     /\ NumGt(MathAbs(correlations[pr[1]][pr[2]]), Rat(9, 10))}

\* the pairs of distinct columns with |correlation| > 0.7
StrongCorrelations(correlations) ==
  {pr \in (DOMAIN correlations) \X (DOMAIN correlations) :
     /\ pr[1] # pr[2]
     /\ NumGt(MathAbs(correlations[pr[1]][pr[2]]), SevenTenths)}

\* A recommendation is [category, priority, title, column]; column is the
\* column named in the title, <<>> when there is none.  The description,
\* action and impact texts are not modelled.
generateRecommendations(d, columnStats, anomalies) ==
  LET highMissingColumns == SelectSeq(d.columns, LAMBDA col : NumGt(col.missingRate, OneFifth))
      numericalColumns == SelectSeq(columnStats, LAMBDA stat : stat.type = "numerical")
      strongCorrelations == StrongCorrelations(calculateCorrelations(d))
      outlierColumns == SelectSeq(anomalies, LAMBDA a : a.type = "outlier" /\ a.severity = "high")
      cardinality ==
        [i \in 1..Len(columnStats) |->
           IF /\ columnStats[i].type = "categorical"
              /\ columnStats[i].categorical # <<>>
              /\ NumGt(Int2Num(columnStats[i].categorical[1].uniqueCount),
                       NumMul(Int2Num(d.totalRows), FourFifths))
           THEN <<[category |-> "preprocessing", priority |-> "low",
                   title |-> "High Cardinality", column |-> columnStats[i].name]>>
           ELSE <<>>]
      FlattenCard[k \in 0..Len(columnStats)] ==
        IF k = 0 THEN <<>> ELSE FlattenCard[k - 1] \o cardinality[k]
  IN (IF Len(highMissingColumns) > 0
      THEN <<[category |-> "data_quality", priority |-> "high",
              title |-> "Address Missing Values", column |-> <<>>]>>
      ELSE <<>>)
     \o (IF Len(numericalColumns) >= 2 /\ strongCorrelations # {}
         THEN <<[category |-> "analysis", priority |-> "medium",
                 title |-> "Strong Correlations Detected", column |-> <<>>]>>
         ELSE <<>>)
     \o (IF Len(outlierColumns) > 0
         THEN <<[category |-> "preprocessing", priority |-> "medium",
                 title |-> "Handle Outliers", column |-> <<>>]>>
         ELSE <<>>)
     \o FlattenCard[Len(columnStats)]

\* analyzeData from the column statistics and the anomalies on
AnalysisOf(d, columnStats, anomalies) ==
  [columnStats |-> columnStats,
   correlations |-> calculateCorrelations(d),
   anomalies |-> anomalies,
   recommendations |-> generateRecommendations(d, columnStats, anomalies)]

AnalysisOfStats(d, columnStats) ==
  AnalysisOf(d, columnStats, detectAnomalies(d, columnStats))

analyzeData(d) == AnalysisOfStats(d, generateColumnStats(d))

\* ------------------------------------------------------------------------
\* cleanData on the heap: which arrays and objects it allocates, shares and
\* writes.  The heap is a sequence of objects, a reference is an index.  An
\* array is [kind, items], a column object holds a reference to the array of
\* its values, a table object a reference to the array of its column objects.
\* ------------------------------------------------------------------------
ArrayObject(items) == [kind |-> "array", items |-> items]

ColumnObject(column, valuesRef) ==
  [kind |-> "column", name |-> column.name, type |-> column.type,
   values |-> valuesRef, missingCount |-> column.missingCount,
   missingRate |-> column.missingRate]

TableObject(d, columnsRef) ==
  [kind |-> "table", totalRows |-> d.totalRows, totalColumns |-> d.totalColumns,
   columns |-> columnsRef, fileName |-> d.fileName]

\* a new object on the heap, and the reference to it
Alloc(h, object) == [heap |-> Append(h, object), ref |-> Len(h) + 1]

\* the heap that holds the table d and nothing else: per column the array of
\* its values and its object, then the array of the columns, then the table
TableOnHeap(d) ==
  [id \in 1..(2 * Len(d.columns) + 2) |->
     IF id <= 2 * Len(d.columns) /\ id % 2 = 1
     THEN ArrayObject(d.columns[(id + 1) \div 2].values)
     ELSE IF id <= 2 * Len(d.columns)
     THEN ColumnObject(d.columns[id \div 2], id - 1)
     ELSE IF id = 2 * Len(d.columns) + 1
     THEN ArrayObject([j \in 1..Len(d.columns) |-> 2 * j])
     ELSE TableObject(d, 2 * Len(d.columns) + 1)]

\* the column and the table that a reference stands for
ColumnValue(h, ref) ==
  [name |-> h[ref].name, type |-> h[ref].type, values |-> h[h[ref].values].items,
   missingCount |-> h[ref].missingCount, missingRate |-> h[ref].missingRate]

TableValue(h, ref) ==
  [totalRows |-> h[ref].totalRows,
   totalColumns |-> h[ref].totalColumns,
   columns |-> [j \in 1..Len(h[h[ref].columns].items) |->
                  ColumnValue(h, h[h[ref].columns].items[j])],
   fileName |-> h[ref].fileName]

\* cleanColumn, step 3 and the return: imputeMissingValues returns the array
\* it was given when no value is non-missing and a new array otherwise; the
\* cleaned column is a new object { ...column, type, values, ... }
HeapImputeStep(h, valuesRef, result) ==
  IF result.report.imputationMethod = "no_imputation_possible"
  THEN [heap |-> Append(h, ColumnObject(result.cleanedColumn, valuesRef)),
        ref |-> Len(h) + 1, values |-> valuesRef, report |-> result.report]
  ELSE [heap |-> h \o <<ArrayObject(result.cleanedColumn.values),
                        ColumnObject(result.cleanedColumn, Len(h) + 1)>>,
        ref |-> Len(h) + 2, values |-> Len(h) + 1, report |-> result.report]

\* cleanColumn, step 2: a converter returns a new array, an unrouted column
\* gets back the array it passed
HeapConvertStep(h, valuesRef, conv, result) ==
  IF conv.converted
  THEN HeapImputeStep(Append(h, ArrayObject(conv.values)), Len(h) + 1, result)
  ELSE HeapImputeStep(h, valuesRef, result)

\* cleanColumn, step 1: fixErroneousValues maps the copy to a new array
HeapFixStep(h, column, legacy, fixed, result) ==
  HeapConvertStep(Append(h, ArrayObject(fixed.values)), Len(h) + 1,
                  convertTypes(fixed.values, column, legacy), result)

\* cleanColumn: cleanedValues = [...column.values] is a new array
\* (the values of the steps are bound once, as members of singleton sets)
HeapCleanColumnOf(h, column, totalRows, legacy) ==
  CHOOSE out \in
    {HeapFixStep(Append(h, ArrayObject(column.values)), column, legacy, fixed, result) :
       fixed \in {fixErroneousValues(column.values, column.type)},
       result \in {cleanColumn(column, totalRows, legacy)}} : TRUE

HeapCleanColumn(h, columnRef, totalRows, legacy) ==
  CHOOSE out \in
    {HeapCleanColumnOf(h, column, totalRows, legacy) :
       column \in {ColumnValue(h, columnRef)}} : TRUE

\* a slip: the flag is written into the values of the input column
MarkFlagInColumn(h, flagValues, columnValues, index) ==
  [h EXCEPT ![columnValues].items[index] = Bool(TRUE)]

\* cleaningFlagColumn.values[index] = true
MarkFlag(h, flagValues, columnValues, index) ==
  [h EXCEPT ![flagValues].items[index] = Bool(TRUE)]

\* cleanedColumn.values.forEach((value, index) => ...): the rows from index on
RECURSIVE HeapMarkRows(_, _, _, _, _)
HeapMarkRows(h, flagValues, columnValues, cleanedValues, index) ==
  IF index > Len(h[cleanedValues].items) THEN h
  ELSE CHOOSE out \in
         {HeapMarkRows(marked, flagValues, columnValues, cleanedValues, index + 1) :
            marked \in
              {IF /\ index <= Len(h[columnValues].items)
                  /\ ~StrictEq(h[cleanedValues].items[index],
                               h[columnValues].items[index])
               THEN MarkFlag(h, flagValues, columnValues, index)
               ELSE h}} : TRUE

\* one turn of data.columns.forEach: the cleaned column c is pushed onto
\* cleanedColumns and the rows it changed are marked
HeapPushAndMark(st, columnRef, c) ==
  [heap |-> CHOOSE out \in
              {HeapMarkRows(pushed, st.flagValues, c.heap[columnRef].values,
                            c.values, 1) :
                 pushed \in {[c.heap EXCEPT ![st.cleanedColumns].items
                                               = Append(@, c.ref)]}} : TRUE,
   cleanedColumns |-> st.cleanedColumns,
   flagValues |-> st.flagValues,
   flagColumn |-> st.flagColumn]

RECURSIVE HeapForEachColumn(_, _, _, _, _)
HeapForEachColumn(st, columnRefs, k, totalRows, legacy) ==
  IF k > Len(columnRefs) THEN st
  ELSE CHOOSE out \in
         {HeapForEachColumn(HeapPushAndMark(st, columnRefs[k], c),
                            columnRefs, k + 1, totalRows, legacy) :
            c \in {HeapCleanColumn(st.heap, columnRefs[k], totalRows, legacy)}} : TRUE

\* cleanData before its loop: the array of the cleaned columns, the values of
\* the flag column and the flag column are new
HeapBeforeLoop(h, totalRows) ==
  [heap |-> h \o << ArrayObject(<<>>),
                    ArrayObject([i \in 1..totalRows |-> Bool(FALSE)]),
                    [kind |-> "column", name |-> FlagColumnName,
                     type |-> "categorical", values |-> Len(h) + 2,
                     missingCount |-> 0, missingRate |-> Zero] >>,
   cleanedColumns |-> Len(h) + 1,
   flagValues |-> Len(h) + 2,
   flagColumn |-> Len(h) + 3]

\* cleanData after its loop: the flag column is pushed and the cleaned table
\* is a new object { ...data, totalColumns, columns }
HeapAfterLoop(st, table) ==
  [heap |-> Append([st.heap EXCEPT ![st.cleanedColumns].items = Append(@, st.flagColumn)],
                   [kind |-> "table", totalRows |-> table.totalRows,
                    totalColumns |-> table.totalColumns + 1,
                    columns |-> st.cleanedColumns, fileName |-> table.fileName]),
   cleanedData |-> Len(st.heap) + 1]

\* DataCleaner.cleanData(data) for the table object at dataRef
cleanDataOnHeap(h, dataRef, legacy) ==
  CHOOSE out \in
    {HeapAfterLoop(st, h[dataRef]) :
       st \in {HeapForEachColumn(HeapBeforeLoop(h, h[dataRef].totalRows),
                                 h[h[dataRef].columns].items, 1,
                                 h[dataRef].totalRows, legacy)}} : TRUE

\* ------------------------------------------------------------------------
\* The state machine
\* ------------------------------------------------------------------------
VARIABLES
  legacyDates,  \* whether the host's Date.parse accepts non-ISO strings
  data,         \* the table made by createDataSummary
  cleaned,      \* <<>> or <<cleanData(data)>>
  recleaned,    \* <<>> or <<cleanData of the cleaned table>>
  analysis,     \* <<>> or <<analyzeData(data)>>
  applied,      \* <<>> or <<a step of the cleaner applied on its own>>
  heap,         \* the objects and arrays of the program, <<>> when not followed
  heapInput,    \* the reference to the table last passed to cleanData
  heapBefore,   \* <<>> or <<the heap when cleanData was last called>>
  heapResult,   \* the references cleanData returned, one per call
  appData,      \* App's data state: <<>> (null) or <<the loaded table>>
  pageId,       \* the instance of LandingPage or Dashboard that is mounted
  isProcessing, \* isProcessing of the mounted LandingPage or DataCleaningPanel
  loads,        \* the calls of processFile that wait for FileProcessor
  cleanedData,  \* the Dashboard's cleanedData: <<>> (null) or <<a table>>
  cleaningReport, \* the Dashboard's cleaningReport: <<>> (null) or <<a report>>
  timers        \* the calls of handleCleanData that wait for their timeout

heapVars == <<heap, heapInput, heapBefore, heapResult>>
uiVars == <<appData, pageId, isProcessing, loads, cleanedData, cleaningReport,
            timers>>
vars == <<legacyDates, data, cleaned, recleaned, analysis, applied, heapVars,
          uiVars>>

\* the heap is not followed
HeapUnused ==
  /\ heap = <<>>
  /\ heapInput = 0
  /\ heapBefore = <<>>
  /\ heapResult = <<>>

\* the user interface is not followed
UiUnused ==
  /\ appData = <<>>
  /\ pageId = 0
  /\ isProcessing = FALSE
  /\ loads = {}
  /\ cleanedData = <<>>
  /\ cleaningReport = <<>>
  /\ timers = {}

\* Input tables ------------------------------------------------------------
NamePrice == <<"p", "r", "i", "c", "e">>
NameQty == <<"q", "t", "y">>
NameDate == <<"d", "a", "t", "e">>
NameX == <<"x">>
NameY == <<"y">>
NameZ == <<"z">>
NameNote == <<"n", "o", "t", "e">>

MainNames == {NamePrice, NameQty, NameDate, NameX}

\* the cells a column of each name is filled from
Pool(name) ==
  CASE name = NamePrice ->
         {Null, Str(<<"n", "/", "a">>), Str(<<"$", "1", "0">>), Str(<<"-", "5">>),
          Str(<<"a", "b", "c">>), Str(InfinityLiteral), Str(<<"-">> \o InfinityLiteral)}
    [] name = NameQty ->
         {Null, Str(<<"1">>), Str(<<"2">>), Str(<<"2", ".", "5">>),
          Str(<<"1", ",", "0", "0", "0">>)}
    [] name = NameDate ->
         {Null, Str(<<"2", "0", "2", "4", "-", "0", "1", "-", "0", "5">>),
          Str(<<"2", "0", "2", "4", "-", "0", "2", "-", "2", "9">>),
          Str(<<"a", "b", "c">>), Str(<<" ", " ">>)}
    [] name = NameX ->
         {Undefined, Str(<<>>), Str(<<" ", " ">>), Str(<<"-">>), Num(Int2Num(7))}

\* the further columns of a table: filled, or with a gap in the first row
SideValues(variant, r) ==
  [i \in 1..r |-> IF variant = "gap" /\ i = 1 THEN Null ELSE Str(<<"o", "k">>)]
SideName(j) == NameNote \o NatToString(j)

\* the rows of a table given by its columns
Rows(columnValues, r) ==
  [i \in 1..r |-> [j \in 1..Len(columnValues) |-> columnValues[j][i]]]

\* tables of a named column and MaxCols - 1 further columns
InitTable ==
  \E r \in 1..MaxRows, c \in 1..MaxCols, name \in MainNames :
    \E values \in [1..r -> Pool(name)], side \in [2..c -> {"full", "gap"}] :
      LET headers == [j \in 1..c |-> IF j = 1 THEN name ELSE SideName(j)]
          columnValues == [j \in 1..c |-> IF j = 1 THEN values
                                          ELSE SideValues(side[j], r)]
      IN data = createDataSummary(headers, Rows(columnValues, r), legacyDates)

\* tables of one column of signed numbers, long enough for more than 80% of
\* the numbers to be positive while one is negative
SignRows == 6
SignPool == {Null, Str(<<" ", " ">>), Str(<<"1">>), Str(<<"-", "1">>)}

InitSignTable ==
  \E values \in [1..SignRows -> SignPool] :
    data = createDataSummary(<<NameX>>, Rows(<<values>>, SignRows), legacyDates)

\* tables of one price column filled from the values "10", "-5", "n/a", "20"
ScenarioRows == 4
ScenarioValues == <<Str(<<"1", "0">>), Str(<<"-", "5">>), Str(<<"n", "/", "a">>),
                    Str(<<"2", "0">>)>>

InitScenarioTable ==
  \E r \in 1..ScenarioRows :
    \E values \in [1..r -> Range(ScenarioValues)] :
      data = createDataSummary(<<NamePrice>>, Rows(<<values>>, r), legacyDates)

\* tables of one column of sentinel tokens, plain or in capitals and padded,
\* beside missing cells and ordinary values
SentinelRows == 2
SentinelPool ==
  {Str(token) : token \in SentinelTokens}
  \cup {Str(<<" ", "N", "/", "A", " ">>), Str(<<"U", "n", "k", "n", "o", "w", "n">>),
        Str(<<"n", "/", "a", "x">>), Str(<<"-", "1">>), Num(Int2Num(-1)),
        Null, Str(<<" ", " ">>)}

InitSentinelTable ==
  \E r \in 1..SentinelRows :
    \E values \in [1..r -> SentinelPool] :
      data = createDataSummary(<<NameNote>>, Rows(<<values>>, r), legacyDates)

\* tables of one column whose name matches several keyword lists, one, or
\* none: Amount (price and quantity), Cost_Date (price and date), day_count
\* (quantity and date), TOTAL (quantity), when (none)
RoutedRows == 2
RoutedNames ==
  { <<"A", "m", "o", "u", "n", "t">>,
    <<"C", "o", "s", "t", "_", "D", "a", "t", "e">>,
    <<"d", "a", "y", "_", "c", "o", "u", "n", "t">>,
    <<"T", "O", "T", "A", "L">>,
    <<"w", "h", "e", "n">> }
RoutedPool ==
  {Null, Str(<<" ", " ">>), Str(<<"2", ".", "5">>), Str(<<"$", "1", "0">>),
   Str(<<"2", "0", "2", "4", "-", "0", "1", "-", "0", "5">>),
   Str(<<"a", "b", "c">>)}

InitRoutedTable ==
  \E r \in 1..RoutedRows, name \in RoutedNames :
    \E values \in [1..r -> RoutedPool] :
      data = createDataSummary(<<name>>, Rows(<<values>>, r), legacyDates)

\* tables of one column of the numbers "1" .. "5" followed by up to TailRows
\* cells: a column typed numerical that may hold one value that is no number
TailRows == 2
MedianHead == <<Str(<<"1">>), Str(<<"2">>), Str(<<"3">>), Str(<<"4">>), Str(<<"5">>)>>
TailPool == {Null, Str(<<"a", "b", "c">>), Str(<<"6">>)}

InitMedianTable ==
  \E t \in 0..TailRows :
    \E tail \in [1..t -> TailPool] :
      data = createDataSummary(<<NameX>>, Rows(<<MedianHead \o tail>>, 5 + t),
                               legacyDates)

\* the loaded table is the only content of the heap
InitHeap ==
  /\ legacyDates \in BOOLEAN
  /\ InitTable
  /\ cleaned = <<>>
  /\ recleaned = <<>>
  /\ analysis = <<>>
  /\ applied = <<>>
  /\ heap = TableOnHeap(data)
  /\ heapInput = Len(TableOnHeap(data))
  /\ heapBefore = <<>>
  /\ heapResult = <<>>
  /\ UiUnused

Init ==
  /\ legacyDates \in BOOLEAN
  /\ \/ InitTable
     \/ InitMedianTable
     \/ InitSignTable
     \/ InitScenarioTable
     \/ InitSentinelTable
     \/ InitRoutedTable
  /\ cleaned = <<>>
  /\ recleaned = <<>>
  /\ analysis = <<>>
  /\ applied = <<>>
  /\ HeapUnused
  /\ UiUnused

\* tables of numerical columns x, y and further columns z3, z4, ...
XPool == {Null, Num(Int2Num(1)), Num(Int2Num(2)), Str(InfinityLiteral)}
YPool == {Null, Num(Int2Num(2)), Num(Int2Num(4))}

InitCorrTable ==
  \E r \in 2..MaxRows, c \in 2..(MaxCols + 1) :
    \E xs \in [1..r -> XPool], ys \in [1..r -> YPool] :
      LET headers == [j \in 1..c |-> IF j = 1 THEN NameX
                                     ELSE IF j = 2 THEN NameY
                                     ELSE NameZ \o NatToString(j)]
          columnValues == [j \in 1..c |-> IF j = 1 THEN xs
                                          ELSE IF j = 2 THEN ys
                                          ELSE [i \in 1..r |-> Num(Int2Num(j * i))]]
      IN data = createDataSummary(headers, Rows(columnValues, r), FALSE)

\* tables of one numerical column
MaxStatRows == 4
StatPool == {Null, Str(<<" ", " ">>), Num(Int2Num(1)), Num(Rat(126, 125)),
             Num(Int2Num(2)), Num(Int2Num(10))}

InitStatTable ==
  \E r \in 1..MaxStatRows :
    \E values \in [1..r -> StatPool] :
      data = createDataSummary(<<NameX>>, Rows(<<values>>, r), FALSE)

\* tables of one column of colour names
CategoryRows == 6
NameColor == <<"c", "o", "l", "o", "r">>
CategoryPool == {Null, Str(<<" ", " ">>), Str(<<"r", "e", "d">>),
                 Str(<<"b", "l", "u", "e">>)}

InitCategoryTable ==
  \E r \in 3..CategoryRows :
    \E values \in [1..r -> CategoryPool] :
      data = createDataSummary(<<NameColor>>, Rows(<<values>>, r), FALSE)

\* tables of one column of up to MissingRows cells, each null or 1
MissingRows == 10
MissingPool == {Null, Num(Int2Num(1))}

InitMissingTable ==
  \E r \in 1..MissingRows :
    \E values \in [1..r -> MissingPool] :
      data = createDataSummary(<<NameX>>, Rows(<<values>>, r), FALSE)

\* Date.parse gives the same result on every host for these tables: a
\* present value is a number or a string without a digit
\* cleaned tables, as the dashboard analyses them: the result of cleanData on
\* a table of one column, with the flag column cleanData adds
CleanedRows == 2
CleanedPool == {Null, Num(Int2Num(1)), Num(Int2Num(2)), Str(<<"a">>)}

InitCleanedTable ==
  \E r \in 1..CleanedRows :
    \E values \in [1..r -> CleanedPool] :
      data = cleanData(createDataSummary(<<NameX>>, Rows(<<values>>, r), FALSE),
                       FALSE).cleanedData

\* tables of one column of up to DuplicateRows cells with few distinct values
DuplicateRows == 7
DuplicatePool == {Str(<<" ", " ">>), Num(Int2Num(1)), Num(Int2Num(2))}

InitDuplicateTable ==
  \E r \in 1..DuplicateRows :
    \E values \in [1..r -> DuplicatePool] :
      data = createDataSummary(<<NameX>>, Rows(<<values>>, r), FALSE)

InitAnalysis ==
  /\ legacyDates = FALSE
  /\ \/ InitCorrTable
     \/ InitDuplicateTable
     \/ InitStatTable
     \/ InitCategoryTable
     \/ InitMissingTable
     \/ InitCleanedTable
  /\ cleaned = <<>>
  /\ recleaned = <<>>
  /\ analysis = <<>>
  /\ applied = <<>>
  /\ HeapUnused
  /\ UiUnused

\* Actions -----------------------------------------------------------------
\* DataCleaner.cleanData(data)
Clean ==
  /\ cleaned = <<>>
  /\ cleaned' = <<cleanData(data, legacyDates)>>
  /\ UNCHANGED <<legacyDates, data, recleaned, analysis, applied>>
  /\ UNCHANGED heapVars
  /\ UNCHANGED uiVars

\* DataCleaner.cleanData applied to the table it returned
CleanAgain ==
  /\ cleaned # <<>>
  /\ recleaned = <<>>
  /\ recleaned' = <<cleanData(cleaned[1].cleanedData, legacyDates)>>
  /\ UNCHANGED <<legacyDates, data, cleaned, analysis, applied>>
  /\ UNCHANGED heapVars
  /\ UNCHANGED uiVars

\* DataAnalyzer.analyzeData(data)
Analyze ==
  /\ analysis = <<>>
  /\ analysis' = <<analyzeData(data)>>
  /\ UNCHANGED <<legacyDates, data, cleaned, recleaned, applied>>
  /\ UNCHANGED heapVars
  /\ UNCHANGED uiVars

ColumnTypes == {"numerical", "categorical", "date", "text"}

\* DataCleaner.fixErroneousValues(values, columnType) on the values of a column
ApplyFix ==
  /\ applied = <<>>
  /\ \E j \in 1..Len(data.columns), columnType \in ColumnTypes :
       applied' = <<[op |-> "fixErroneousValues",
                     values |-> data.columns[j].values,
                     columnType |-> columnType,
                     out |-> fixErroneousValues(data.columns[j].values, columnType)]>>
  /\ UNCHANGED <<legacyDates, data, cleaned, recleaned, analysis>>
  /\ UNCHANGED heapVars
  /\ UNCHANGED uiVars

\* DataCleaner.convertTypes(values, column) on the values of a column
ApplyConvert ==
  /\ applied = <<>>
  /\ \E j \in 1..Len(data.columns) :
       applied' = <<[op |-> "convertTypes",
                     values |-> data.columns[j].values,
                     column |-> data.columns[j],
                     out |-> convertTypes(data.columns[j].values, data.columns[j],
                                          legacyDates)]>>
  /\ UNCHANGED <<legacyDates, data, cleaned, recleaned, analysis>>
  /\ UNCHANGED heapVars
  /\ UNCHANGED uiVars

\* DataCleaner.imputeMissingValues(values, columnType) on the values of a column
ApplyImpute ==
  /\ applied = <<>>
  /\ \E j \in 1..Len(data.columns), columnType \in ColumnTypes :
       applied' = <<[op |-> "imputeMissingValues",
                     values |-> data.columns[j].values,
                     columnType |-> columnType,
                     out |-> imputeMissingValues(data.columns[j].values, columnType)]>>
  /\ UNCHANGED <<legacyDates, data, cleaned, recleaned, analysis>>
  /\ UNCHANGED heapVars
  /\ UNCHANGED uiVars

Next == Clean \/ CleanAgain

Spec == Init /\ [][Next]_vars

NextAnalysis == Analyze

SpecAnalysis == InitAnalysis /\ [][NextAnalysis]_vars

\* DataCleaner.cleanData(data) on the heap, for the loaded table
CleanOnHeap ==
  /\ heap # <<>>
  /\ heapResult = <<>>
  /\ \E r \in {cleanDataOnHeap(heap, heapInput, legacyDates)} :
       /\ heap' = r.heap
       /\ heapResult' = <<r.cleanedData>>
  /\ heapBefore' = <<heap>>
  /\ UNCHANGED <<legacyDates, data, cleaned, recleaned, analysis, applied, heapInput>>
  /\ UNCHANGED uiVars

\* DataCleaner.cleanData on the heap, for the table the first call returned
CleanOnHeapAgain ==
  /\ Len(heapResult) = 1
  /\ \E r \in {cleanDataOnHeap(heap, heapResult[1], legacyDates)} :
       /\ heap' = r.heap
       /\ heapResult' = Append(heapResult, r.cleanedData)
  /\ heapBefore' = <<heap>>
  /\ heapInput' = heapResult[1]
  /\ UNCHANGED <<legacyDates, data, cleaned, recleaned, analysis, applied>>
  /\ UNCHANGED uiVars

NextHeap == CleanOnHeap \/ CleanOnHeapAgain
SpecHeap == InitHeap /\ [][NextHeap]_vars

NextSteps == ApplyFix \/ ApplyConvert \/ ApplyImpute

SpecSteps == Init /\ [][NextSteps]_vars

\* ------------------------------------------------------------------------
\* App, LandingPage, Dashboard and DataCleaningPanel
\* ------------------------------------------------------------------------
MaxFiles == 2    \* the files the user can drop or select
MaxLoads == 2    \* the calls of processFile that can wait at the same time
MaxMounts == 4   \* the instances of LandingPage and Dashboard that get mounted

FileNames == <<"a.csv", "b.csv", "c.csv", "d.csv">>

\* FileProcessor.processFile(file): the table of file k, one column x with
\* the number k and an empty cell
FileTable(k, legacy) ==
  [createDataSummary(<<NameX>>, <<<<Num(Int2Num(k))>>, <<Null>>>>, legacy)
     EXCEPT !.fileName = FileNames[k]]

\* App renders Dashboard when data is set and LandingPage otherwise
DashboardMounted == appData # <<>>
LandingPageMounted == appData = <<>>

\* Dashboard: currentData = cleanedData || data
CurrentData == IF cleanedData # <<>> THEN cleanedData[1] ELSE appData[1]

InitUI ==
  /\ legacyDates \in BOOLEAN
  /\ data = <<>>
  /\ cleaned = <<>>
  /\ recleaned = <<>>
  /\ analysis = <<>>
  /\ applied = <<>>
  /\ HeapUnused
  /\ appData = <<>>
  /\ pageId = 1
  /\ isProcessing = FALSE
  /\ loads = {}
  /\ cleanedData = <<>>
  /\ cleaningReport = <<>>
  /\ timers = {}

\* LandingPage.processFile up to the await: the call waits for FileProcessor
StartLoad(k, handler) ==
  /\ Cardinality(loads) < MaxLoads
  /\ isProcessing' = TRUE
  /\ loads' = loads \cup {[file |-> k, page |-> pageId, handler |-> handler]}
  /\ UNCHANGED <<appData, pageId, cleanedData, cleaningReport, timers>>

\* LandingPage.handleDrop: the drop zone takes a file at any time
Drop ==
  /\ LandingPageMounted
  /\ \E k \in 1..MaxFiles : StartLoad(k, "handleDrop")
  /\ UNCHANGED <<legacyDates, data, cleaned, recleaned, analysis, applied, heapVars>>

\* LandingPage.handleFileSelect: the input is disabled while isProcessing
Select ==
  /\ LandingPageMounted
  /\ ~isProcessing
  /\ \E k \in 1..MaxFiles : StartLoad(k, "handleFileSelect")
  /\ UNCHANGED <<legacyDates, data, cleaned, recleaned, analysis, applied, heapVars>>

\* LandingPage.processFile after the await: App.handleDataLoaded sets data;
\* a Dashboard that is mounted keeps its state, otherwise a new one is
\* mounted in place of the LandingPage; setIsProcessing(false) reaches a
\* LandingPage that is no longer mounted
LoadDone ==
  /\ \E l \in loads :
       /\ loads' = loads \ {l}
       /\ appData' = <<FileTable(l.file, legacyDates)>>
       /\ IF DashboardMounted
          THEN UNCHANGED <<pageId, isProcessing, cleanedData, cleaningReport>>
          ELSE /\ pageId' = pageId + 1
               /\ isProcessing' = FALSE
               /\ cleanedData' = <<>>
               /\ cleaningReport' = <<>>
  /\ UNCHANGED timers
  /\ UNCHANGED <<legacyDates, data, cleaned, recleaned, analysis, applied, heapVars>>

\* LandingPage.processFile when FileProcessor rejects: setError, then
\* setIsProcessing(false) on the LandingPage that started the call
LoadFails ==
  /\ \E l \in loads :
       /\ loads' = loads \ {l}
       /\ isProcessing' = IF LandingPageMounted /\ l.page = pageId
                          THEN FALSE ELSE isProcessing
  /\ UNCHANGED <<appData, pageId, cleanedData, cleaningReport, timers>>
  /\ UNCHANGED <<legacyDates, data, cleaned, recleaned, analysis, applied, heapVars>>

\* DataCleaningPanel.handleCleanData up to the await: the panel is rendered
\* while the Dashboard has no cleanedData, its button is disabled while
\* isProcessing; the call keeps the originalData of the render it was made in
StartCleaning ==
  /\ DashboardMounted
  /\ cleanedData = <<>>
  /\ ~isProcessing
  /\ isProcessing' = TRUE
  /\ timers' = timers \cup {[page |-> pageId, originalData |-> appData[1]]}
  /\ UNCHANGED <<appData, pageId, loads, cleanedData, cleaningReport>>
  /\ UNCHANGED <<legacyDates, data, cleaned, recleaned, analysis, applied, heapVars>>

\* DataCleaningPanel.handleCleanData after the await: cleanData(originalData),
\* then Dashboard.handleCleanedDataReady on the Dashboard the panel belongs
\* to, which unmounts the panel; the state of an unmounted Dashboard is gone
TimerFires ==
  /\ \E t \in timers :
       /\ timers' = timers \ {t}
       /\ IF DashboardMounted /\ t.page = pageId
          THEN \E r \in {cleanData(t.originalData, legacyDates)} :
                 /\ cleanedData' = <<r.cleanedData>>
                 /\ cleaningReport' = <<r.report>>
                 /\ isProcessing' = FALSE
          ELSE UNCHANGED <<cleanedData, cleaningReport, isProcessing>>
  /\ UNCHANGED <<appData, pageId, loads>>
  /\ UNCHANGED <<legacyDates, data, cleaned, recleaned, analysis, applied, heapVars>>

\* App.handleBack: setData(null) unmounts the Dashboard and mounts a new
\* LandingPage
Back ==
  /\ DashboardMounted
  /\ pageId + 1 < MaxMounts
  /\ appData' = <<>>
  /\ pageId' = pageId + 1
  /\ isProcessing' = FALSE
  /\ cleanedData' = <<>>
  /\ cleaningReport' = <<>>
  /\ UNCHANGED <<loads, timers>>
  /\ UNCHANGED <<legacyDates, data, cleaned, recleaned, analysis, applied, heapVars>>

NextUI == Drop \/ Select \/ LoadDone \/ LoadFails \/ StartCleaning \/ TimerFires
            \/ Back

SpecUI == InitUI /\ [][NextUI]_vars

\* ------------------------------------------------------------------------
\* Properties
\* ------------------------------------------------------------------------
\* the passes of cleanData made so far, as <<input table, result>>
Passes ==
  (IF cleaned # <<>> THEN {<<data, cleaned[1]>>} ELSE {})
  \cup (IF recleaned # <<>> THEN {<<cleaned[1].cleanedData, recleaned[1]>>} ELSE {})

\* C1: cleanData returns a table with one column more than its input and as
\* many rows; its column list has totalColumns entries, the input columns in
\* their order followed by the flag column, each with totalRows values.
C1_CleanedShape ==
  \A pass \in Passes :
    LET input == pass[1]
        out == pass[2].cleanedData
    IN /\ out.totalColumns = input.totalColumns + 1
       /\ out.totalRows = input.totalRows
       /\ Len(out.columns) = out.totalColumns
       /\ \A j \in 1..input.totalColumns :
            out.columns[j].name = input.columns[j].name
       /\ out.columns[Len(out.columns)].name = FlagColumnName
       /\ \A j \in 1..Len(out.columns) :
            Len(out.columns[j].values) = out.totalRows

C1_Witness ==
  /\ recleaned # <<>>
  /\ data.totalColumns = MaxCols
  /\ data.totalRows = MaxRows
  /\ recleaned[1].cleanedData.totalColumns = MaxCols + 2

\* C2: after cleanData of an ingested table, the flag of row i is true iff
\* some column's cleaned value at row i differs from the raw value there, and
\* totalRowsCleaned is the number of rows flagged.
C2_FlagIffChanged ==
  cleaned # <<>> =>
    LET out == cleaned[1].cleanedData
        flag == out.columns[Len(out.columns)]
    IN /\ \A i \in 1..data.totalRows :
            (flag.values[i] = Bool(TRUE))
              <=> (\E j \in 1..Len(data.columns) :
                     out.columns[j].values[i] # data.columns[j].values[i])
       /\ \A i \in 1..data.totalRows : flag.values[i] \in {Bool(TRUE), Bool(FALSE)}
       /\ cleaned[1].report.totalRowsCleaned =
            Cardinality({i \in 1..data.totalRows : flag.values[i] = Bool(TRUE)})

\* a row changed by the first column only, one by a further column only, and
\* one that no column changed
C2_Witness ==
  /\ cleaned # <<>>
  /\ Len(data.columns) >= 2
  /\ LET out == cleaned[1].cleanedData
         flag == out.columns[Len(out.columns)]
         changed(j, i) == out.columns[j].values[i] # data.columns[j].values[i]
     IN /\ \E i \in 1..data.totalRows :
             flag.values[i] = Bool(TRUE) /\ changed(1, i) /\ ~changed(2, i)
        /\ \E i \in 1..data.totalRows :
             flag.values[i] = Bool(TRUE) /\ ~changed(1, i) /\ changed(2, i)
        /\ \E i \in 1..data.totalRows : flag.values[i] = Bool(FALSE)

\* C3: cleaning the cleaned table imputes nothing.
C3_SecondPassImputesNothing ==
  recleaned # <<>> => recleaned[1].report.summary.missingValuesImputed = 0

\* C4: the second pass reports no change: erroneousValuesFixed = 0 and
\* totalRowsCleaned = 0.
C4_SecondPassChangesNothing ==
  recleaned # <<>> =>
    /\ recleaned[1].report.summary.erroneousValuesFixed = 0
    /\ recleaned[1].report.totalRowsCleaned = 0

\* C5: the missing count recorded at ingestion counts exactly the cells the
\* cleaner's isMissing holds of.
C5_UniformMissingPredicate ==
  \A j \in 1..Len(data.columns) :
    data.columns[j].missingCount = Count(data.columns[j].values, isMissing)

\* the names of the numerical columns of the table
NumericalNames == {data.columns[j].name :
                     j \in {k \in 1..Len(data.columns) : data.columns[k].type = "numerical"}}
ColumnNamed(name) == data.columns[CHOOSE j \in 1..Len(data.columns) :
                                    data.columns[j].name = name]

\* C6: the matrix has an entry for every ordered pair of numerical columns,
\* 1 on the diagonal, and is symmetric.
C6_CorrelationMatrix ==
  analysis # <<>> =>
    LET correlations == analysis[1].correlations
    IN /\ DOMAIN correlations = NumericalNames
       /\ \A a \in NumericalNames :
            /\ DOMAIN correlations[a] = NumericalNames
            /\ correlations[a][a] = One
            /\ \A b \in NumericalNames : correlations[a][b] = correlations[b][a]

C6_Witness ==
  /\ analysis # <<>>
  /\ Cardinality(NumericalNames) >= 3
  /\ \E a, b \in NumericalNames :
       /\ a # b
       /\ isFinite(analysis[1].correlations[a][b])
       /\ analysis[1].correlations[a][b] \notin {Zero, One, NumNeg(One)}

\* the rows of x and y in which both cells are present and numeric
CompleteRows(x, y) ==
  SelectSeq([i \in 1..Len(x) |-> <<x[i], y[i]>>],
            LAMBDA pr : /\ ~isMissing(pr[1]) /\ ~isMissing(pr[2])
                        /\ ~isNaN(Number(pr[1])) /\ ~isNaN(Number(pr[2])))
CompletePairs(x, y) ==
  LET rows == CompleteRows(x, y)
  IN [i \in 1..Len(rows) |-> <<Number(rows[i][1]), Number(rows[i][2])>>]

\* C7: the coefficient of two columns is the coefficient of the rows in which
\* both cells are present and numeric, and 0 when fewer than 2 such rows
\* remain.
C7_CompleteCasesOnly ==
  analysis # <<>> =>
    \A a, b \in NumericalNames :
      a # b =>
        LET pairs == CompletePairs(ColumnNamed(a).values, ColumnNamed(b).values)
        IN analysis[1].correlations[a][b] =
             (IF Len(pairs) < 2 THEN Zero ELSE PearsonOfPairs(pairs))

\* the rows the coefficient is computed over hold one value only in x
ZeroVariance(x, y) ==
  \A i, j \in {k \in 1..Len(x) : ~isNaN(Number(x[k])) /\ ~isNaN(Number(y[k]))} :
    Number(x[i]) = Number(x[j])

\* C8: a coefficient is never NaN and lies in [-1, 1]; it is 0 when either
\* column has no variance over the rows used.
C8_CoefficientInRange ==
  analysis # <<>> =>
    \A a, b \in NumericalNames :
      /\ ~isNaN(analysis[1].correlations[a][b])
      /\ NumLe(NumNeg(One), analysis[1].correlations[a][b])
      /\ NumLe(analysis[1].correlations[a][b], One)
      /\ (a # b /\ ZeroVariance(ColumnNamed(a).values, ColumnNamed(b).values))
           => analysis[1].correlations[a][b] = Zero

\* x and y are numerical columns of at least 2 rows with y[i] = 2 * x[i]
Doubled(x, y) ==
  /\ x.type = "numerical" /\ y.type = "numerical"
  /\ Len(x.values) >= 2
  /\ \A i \in 1..Len(x.values) :
       /\ isFinite(Number(x.values[i]))
       /\ Number(y.values[i]) = NumMul(Int2Num(2), Number(x.values[i]))
Constant(x) == \A i, j \in 1..Len(x.values) : Number(x.values[i]) = Number(x.values[j])

\* C9 as stated: for distinct numerical columns x and y with y[i] = 2 * x[i] on every
\* row and at least 2 rows, the reported correlation is 1.
C9_DoubledGivesOne ==
  analysis # <<>> =>
    \A a, b \in NumericalNames :
      a # b /\ Doubled(ColumnNamed(a), ColumnNamed(b)) => analysis[1].correlations[a][b] = One

\* C9 as amended: under the same conditions the reported correlation is 1 if
\* x takes at least two distinct values, and 0 if x is constant.
C9_DoubledGivesOneUnlessConstant ==
  analysis # <<>> =>
    \A a, b \in NumericalNames :
      a # b /\ Doubled(ColumnNamed(a), ColumnNamed(b)) =>
        analysis[1].correlations[a][b] =
          (IF Constant(ColumnNamed(a)) THEN Zero ELSE One)

C9_Witness ==
  /\ analysis # <<>>
  /\ {NameX, NameY} \subseteq NumericalNames
  /\ Doubled(ColumnNamed(NameX), ColumnNamed(NameY))
  /\ ~Constant(ColumnNamed(NameX))
  /\ data.totalRows = MaxRows
  /\ analysis[1].correlations[NameX][NameY] = One

\* C10: the reported statistics of a numerical column are ordered,
\* min <= q1 <= median <= q3 <= max.
C10_OrderedQuartiles ==
  analysis # <<>> =>
    \A j \in 1..Len(analysis[1].columnStats) :
      analysis[1].columnStats[j].numerical # <<>> =>
        LET st == analysis[1].columnStats[j].numerical[1]
        IN /\ NumLe(st.min, st.q1)
           /\ NumLe(st.q1, st.median)
           /\ NumLe(st.median, st.q3)
           /\ NumLe(st.q3, st.max)

\* the table is the one price column "10", "-5", "n/a", "20" and was cleaned
PriceScenarioCleaned ==
  /\ cleaned # <<>>
  /\ Len(data.columns) = 1
  /\ data.columns[1].name = NamePrice
  /\ data.columns[1].values = ScenarioValues

\* C11 as stated: cleaning the price column "10", "-5", "n/a", "20" yields the
\* values 10, 5, 10, 20 of type numerical, with erroneousValuesFixed >= 1 and
\* missingValuesImputed = 1.
C11_PriceScenario ==
  PriceScenarioCleaned =>
    /\ cleaned[1].cleanedData.columns[1].values =
         <<Num(Int2Num(10)), Num(Int2Num(5)), Num(Int2Num(10)), Num(Int2Num(20))>>
    /\ cleaned[1].cleanedData.columns[1].type = "numerical"
    /\ cleaned[1].report.columnReports[1].erroneousValuesFixed >= 1
    /\ cleaned[1].report.columnReports[1].missingValuesImputed = 1

\* C11 as amended: it yields the values 10, -5, 10, 20 (the negative value is
\* kept, the sentinel is imputed with the median 10 of -5, 10, 20) of type
\* numerical, with erroneousValuesFixed = 1 and missingValuesImputed = 1.
C11_PriceScenarioKeepsSign ==
  PriceScenarioCleaned =>
    /\ cleaned[1].cleanedData.columns[1].values =
         <<Num(Int2Num(10)), Num(Int2Num(-5)), Num(Int2Num(10)), Num(Int2Num(20))>>
    /\ cleaned[1].cleanedData.columns[1].type = "numerical"
    /\ cleaned[1].report.columnReports[1].finalType = "numerical"
    /\ cleaned[1].report.columnReports[1].erroneousValuesFixed = 1
    /\ cleaned[1].report.columnReports[1].missingValuesImputed = 1

C11_Witness ==
  /\ PriceScenarioCleaned
  /\ data.columns[1].type = "text"
  /\ cleaned[1].report.columnReports[1].typeConverted

\* the cells of values that are not missing
PresentValues(values) == SelectSeq(values, LAMBDA v : ~isMissing(v))

\* the index in values of the first cell whose string is key
FirstIndex(values, key) ==
  CHOOSE i \in 1..Len(values) :
    /\ String(values[i]) = key
    /\ \A k \in 1..(i - 1) : String(values[k]) # key

\* C12: for a categorical column, uniqueCount is the number of distinct
\* non-missing values, and topValues has at most 10 entries, ordered by
\* descending count with ties in first-encountered order, each with its count
\* and percentage = count / (number of non-missing values) * 100 rounded to 1
\* decimal.
C12_CategoricalStats ==
  analysis # <<>> =>
    \A j \in 1..Len(data.columns) :
      analysis[1].columnStats[j].categorical # <<>> =>
        LET present == PresentValues(data.columns[j].values)
            strings == {String(present[i]) : i \in 1..Len(present)}
            stats == analysis[1].columnStats[j].categorical[1]
            top == stats.topValues
        IN /\ stats.uniqueCount = Cardinality(strings)
           /\ Len(top) <= 10
           /\ \A i \in 1..Len(top) :
                /\ top[i].value \in strings
                /\ top[i].count =
                     Cardinality({k \in 1..Len(present) :
                                    String(present[k]) = top[i].value})
                /\ top[i].percentage =
                     toFixed(NumMul(Rat(top[i].count, Len(present)), Int2Num(100)), 1)
           /\ \A a, b \in 1..Len(top) :
                a < b =>
                  /\ top[a].value # top[b].value
                  /\ top[a].count >= top[b].count
                  /\ top[a].count = top[b].count =>
                       FirstIndex(present, top[a].value) < FirstIndex(present, top[b].value)

\* the missing_values anomalies reported for the column called name
MissingAnomalies(name) ==
  SelectSeq(analysis[1].anomalies,
            LAMBDA a : a.type = "missing_values" /\ a.column = name)

\* C13: detectAnomalies emits exactly one missing_values anomaly for each
\* column whose missingRate > 0.3 and none for any other column; its severity
\* is high iff missingRate > 0.5 and medium otherwise.
C13_MissingValuesAnomaly ==
  analysis # <<>> =>
    \A j \in 1..Len(data.columns) :
      LET found == MissingAnomalies(data.columns[j].name)
          rate == data.columns[j].missingRate
      IN /\ Len(found) = IF NumGt(rate, Rat(3, 10)) THEN 1 ELSE 0
         /\ \A i \in 1..Len(found) :
              found[i].severity = IF NumGt(rate, Rat(1, 2)) THEN "high" ELSE "medium"

\* a column with 4 of its 10 cells missing got a medium missing_values anomaly
C13_Witness ==
  /\ analysis # <<>>
  /\ data.totalRows = 10
  /\ data.columns[1].missingCount = 4
  /\ data.columns[1].missingRate = Rat(2, 5)
  /\ Len(MissingAnomalies(data.columns[1].name)) = 1
  /\ MissingAnomalies(data.columns[1].name)[1].severity = "medium"

\* the type the priority rules give to the non-missing values present
TypeByPriority(present, legacy) ==
  LET total == Len(present)
      numbers == Cardinality({i \in 1..total : ~isNaN(Number(present[i]))})
      dates == Cardinality({i \in 1..total : DateParse(present[i], legacy).ok})
      uniqueCount == Cardinality(Range(present))
  IN IF total = 0 THEN "text"
     ELSE IF 10 * numbers > 8 * total THEN "numerical"
     ELSE IF 10 * dates > 8 * total THEN "date"
     ELSE IF 2 * uniqueCount < total /\ uniqueCount < 20 THEN "categorical"
     ELSE "text"

\* C14: the type of an ingested column is given, over its non-missing values,
\* by the rules in priority order: no values -> text; more than 0.8 of them
\* parseable as a number -> numerical; else more than 0.8 parseable as a date
\* -> date; else fewer distinct values than half the values and than 20 ->
\* categorical; else text.
C14_TypeByPriority ==
  \A j \in 1..Len(data.columns) :
    data.columns[j].type = TypeByPriority(PresentValues(data.columns[j].values),
                                          legacyDates)

SentinelWords ==
  { <<"n", "/", "a">>, <<"n", "a">>, <<"u", "n", "k", "n", "o", "w", "n">>,
    <<"n", "u", "l", "l">>, <<"n", "o", "n", "e">>, <<"-">>, <<"-", "-">>,
    <<"?">>, <<"m", "i", "s", "s", "i", "n", "g">> }

\* a non-missing value whose lower-cased, trimmed string is a sentinel
IsSentinel(v) == ~isMissing(v) /\ trim(toLowerCase(String(v))) \in SentinelWords

\* a negative numeric value
IsNegative(v) == ~isNaN(Number(v)) /\ NumLt(Number(v), Zero)

\* fixErroneousValues was applied to the values of a column
FixApplied == applied # <<>> /\ applied[1].op = "fixErroneousValues"

\* C15: fixErroneousValues replaces every sentinel by the missing marker and
\* counts it once; a missing cell is returned unchanged and not counted; a
\* value that is neither a sentinel nor negative is returned unchanged (and
\* not counted: the count is the sentinels plus the other changed cells).
C15_SentinelsBecomeMissing ==
  FixApplied =>
    LET values == applied[1].values
        out == applied[1].out
        cells == 1..Len(values)
    IN /\ Len(out.values) = Len(values)
       /\ \A i \in cells :
            /\ isMissing(values[i]) => out.values[i] = values[i]
            /\ IsSentinel(values[i]) => out.values[i] = Null
            /\ (~isMissing(values[i]) /\ ~IsSentinel(values[i])
                  /\ ~IsNegative(values[i])) => out.values[i] = values[i]
       /\ out.erroneousCount =
            Cardinality({i \in cells : IsSentinel(values[i])})
            + Cardinality({i \in cells : ~IsSentinel(values[i])
                                          /\ out.values[i] # values[i]})

\* a padded sentinel in capitals beside a missing cell: one value counted
C15_Witness ==
  /\ FixApplied
  /\ applied[1].values = <<Str(<<" ", "N", "/", "A", " ">>), Str(<<" ", " ">>)>>
  /\ applied[1].out.values = <<Null, Str(<<" ", " ">>)>>
  /\ applied[1].out.erroneousCount = 1

\* more than 80% of the numeric-parseable non-missing values are >= 0
MostlyNonNegative(values) ==
  LET numeric == SelectSeq(PresentValues(values), LAMBDA v : ~isNaN(Number(v)))
      nonNegative == SelectSeq(numeric, LAMBDA v : NumGe(Number(v), Zero))
  IN 10 * Len(nonNegative) > 8 * Len(numeric)

\* C16: fixErroneousValues replaces a negative numeric value by its absolute
\* value, and counts it, if and only if the column type is numerical and more
\* than 80% of the numeric-parseable non-missing values of the column are
\* >= 0; otherwise negative values are left unchanged.
C16_NegativeToAbsolute ==
  FixApplied =>
    LET values == applied[1].values
        out == applied[1].out
        rule == applied[1].columnType = "numerical" /\ MostlyNonNegative(values)
        negative == {i \in 1..Len(values) : IsNegative(values[i])}
    IN /\ \A i \in negative :
            out.values[i] = IF rule THEN Num(MathAbs(Number(values[i])))
                            ELSE values[i]
       /\ out.erroneousCount =
            Cardinality({i \in 1..Len(values) : IsSentinel(values[i])})
            + (IF rule THEN Cardinality(negative) ELSE 0)

\* convertTypes was applied to a column
ConvertApplied == applied # <<>> /\ applied[1].op = "convertTypes"

\* the name of the converted column matches a keyword of the list, in any case
MatchesPrice == isPriceColumn(toLowerCase(applied[1].column.name))
MatchesQuantity == isQuantityColumn(toLowerCase(applied[1].column.name))
MatchesDate == isDateColumn(toLowerCase(applied[1].column.name))

\* C17: convertTypes tries the keyword lists in the order price, quantity,
\* date on the lower-cased name, first match wins: a name matching a price
\* keyword is parsed as float whatever else it matches, a name matching
\* quantity (and not price) is parsed as integer even if it matches date.
C17_RoutingOrder ==
  ConvertApplied =>
    /\ MatchesPrice => applied[1].out = convertToFloat(applied[1].values)
    /\ (~MatchesPrice /\ MatchesQuantity) =>
         applied[1].out = convertToInteger(applied[1].values)
    /\ (~MatchesPrice /\ ~MatchesQuantity /\ MatchesDate) =>
         applied[1].out = convertToDate(applied[1].values, legacyDates)

\* the column Amount, of a price and a quantity keyword, kept the fraction of
\* "2.5"
C17_Witness ==
  /\ ConvertApplied
  /\ applied[1].column.name = <<"A", "m", "o", "u", "n", "t">>
  /\ MatchesPrice /\ MatchesQuantity
  /\ applied[1].values = <<Str(<<"2", ".", "5">>)>>
  /\ applied[1].out.values = <<Num(Rat(5, 2))>>

\* the value cannot be parsed the way its column is routed
Unparseable(v) ==
  IF MatchesPrice
  THEN isNaN(parseFloat(trim(SelectSeq(String(v), LAMBDA c : c \notin {",", "$", "€", "£", "¥"}))))
  ELSE IF MatchesQuantity
  THEN isNaN(parseInt(SelectSeq(String(v), LAMBDA c : c # ",")))
  ELSE ~NewDate(v, legacyDates).ok

\* C18: convertTypes never turns a missing cell into a non-missing one; in a
\* column routed as price, quantity or date every non-missing value that
\* cannot be parsed becomes missing and the new type is numerical (price,
\* quantity) or date; a column whose name matches no keyword and whose type
\* is not date keeps its values and its type, with converted false.
C18_ConversionKeepsMissing ==
  ConvertApplied =>
    LET values == applied[1].values
        column == applied[1].column
        out == applied[1].out
        routed == MatchesPrice \/ MatchesQuantity \/ MatchesDate \/ column.type = "date"
    IN /\ Len(out.values) = Len(values)
       /\ \A i \in 1..Len(values) : isMissing(values[i]) => isMissing(out.values[i])
       /\ routed =>
            /\ \A i \in 1..Len(values) :
                 (~isMissing(values[i]) /\ Unparseable(values[i]))
                   => isMissing(out.values[i])
            /\ out.newType = IF MatchesPrice \/ MatchesQuantity THEN "numerical"
                              ELSE "date"
       /\ ~routed =>
            /\ out.values = values
            /\ ~out.converted
            /\ out.newType = column.type

\* a quantity column whose value "abc" became missing beside a missing cell
C18_Witness ==
  /\ ConvertApplied
  /\ ~MatchesPrice /\ MatchesQuantity
  /\ applied[1].values = <<Str(<<"a", "b", "c">>), Str(<<" ", " ">>)>>
  /\ applied[1].out.values = <<Null, Str(<<" ", " ">>)>>
  /\ applied[1].out.newType = "numerical"

\* imputeMissingValues was applied to the values of a column
ImputeApplied == applied # <<>> /\ applied[1].op = "imputeMissingValues"

\* C19: when every value passed to imputeMissingValues is missing, it returns
\* the values unchanged with imputedCount 0 and the method
\* "no_imputation_possible", for every column type.
C19_AllMissingUnchanged ==
  (ImputeApplied /\ \A i \in 1..Len(applied[1].values) : isMissing(applied[1].values[i]))
    => /\ applied[1].out.values = applied[1].values
       /\ applied[1].out.imputedCount = 0
       /\ applied[1].out.method = "no_imputation_possible"

\* a numerical column of two missing cells of different kinds
C19_Witness ==
  /\ ImputeApplied
  /\ applied[1].columnType = "numerical"
  /\ applied[1].values = <<Undefined, Str(<<" ", " ">>)>>
  /\ applied[1].out.values = <<Undefined, Str(<<" ", " ">>)>>
  /\ applied[1].out.method = "no_imputation_possible"

\* the number of cells of present equal to v
Frequency(present, v) == Cardinality({i \in 1..Len(present) : present[i] = v})

\* the most frequent value of present, the first encountered of those that tie
FirstMostFrequent(present) ==
  present[CHOOSE i \in 1..Len(present) :
            /\ \A k \in 1..Len(present) :
                 Frequency(present, present[k]) <= Frequency(present, present[i])
            /\ \A k \in 1..(i - 1) :
                 Frequency(present, present[k]) < Frequency(present, present[i])]

\* C20: for categorical, date and text columns every missing cell is filled
\* with the most frequent non-missing value, and of the values that tie for the
\* highest frequency with the one encountered first in the column (values
\* compared by their string forms).
C20_ModeFirstEncountered ==
  (ImputeApplied /\ applied[1].columnType # "numerical"
     /\ PresentValues(applied[1].values) # <<>>)
    => \A i \in 1..Len(applied[1].values) :
         isMissing(applied[1].values[i]) =>
           String(applied[1].out.values[i]) =
             String(FirstMostFrequent(PresentValues(applied[1].values)))

\* x is the k-th smallest of the numbers
IsKthSmallest(numbers, x, k) ==
  /\ Cardinality({i \in 1..Len(numbers) : NumLt(numbers[i], x)}) < k
  /\ k <= Cardinality({i \in 1..Len(numbers) : NumLe(numbers[i], x)})

\* m is the median of the numbers: the middle one in ascending order, or the
\* average of the two middle ones when their count is even
IsMedian(numbers, m) ==
  LET n == Len(numbers)
  IN IF n % 2 = 1
     THEN \E i \in 1..n : /\ IsKthSmallest(numbers, numbers[i], (n + 1) \div 2)
                           /\ m = numbers[i]
     ELSE \E i, j \in 1..n :
            /\ IsKthSmallest(numbers, numbers[i], n \div 2)
            /\ IsKthSmallest(numbers, numbers[j], n \div 2 + 1)
            /\ m = NumDiv(NumAdd(numbers[i], numbers[j]), Int2Num(2))

\* C21: for a numerical column with a non-missing value, imputeMissingValues
\* fills every missing cell with one value, the median of the non-missing
\* values, leaves every non-missing cell unchanged, reports the method
\* "median" and as imputedCount the number of cells missing on entry.
C21_MedianImputation ==
  (ImputeApplied /\ applied[1].columnType = "numerical"
     /\ PresentValues(applied[1].values) # <<>>)
    => LET values == applied[1].values
           out == applied[1].out
           present == PresentValues(values)
           numbers == [i \in 1..Len(present) |-> Number(present[i])]
           missing == {i \in 1..Len(values) : isMissing(values[i])}
       IN /\ missing # {} =>
             \E k \in 1..Len(numbers), l \in 1..Len(numbers) :
               LET m == IF Len(numbers) % 2 = 1 THEN numbers[k]
                        ELSE NumDiv(NumAdd(numbers[k], numbers[l]), Int2Num(2))
               IN /\ IsMedian(numbers, m)
                  /\ \A i \in missing : out.values[i] = Num(m)
          /\ \A i \in 1..Len(values) : i \notin missing => out.values[i] = values[i]
          /\ out.method = "median"
          /\ out.imputedCount = Cardinality(missing)

\* the categorical columns of high cardinality, as recommendations
RECURSIVE HighCardinality(_)
HighCardinality(k) ==
  IF k = 0 THEN <<>>
  ELSE HighCardinality(k - 1) \o
       (IF /\ data.columns[k].type = "categorical"
           /\ 5 * analysis[1].columnStats[k].categorical[1].uniqueCount
                > 4 * data.totalRows
        THEN <<[category |-> "preprocessing", priority |-> "low",
                column |-> data.columns[k].name]>>
        ELSE <<>>)

\* the recommendations the four rules give, in their order
ExpectedRecommendations ==
  (IF \E j \in 1..Len(data.columns) : NumGt(data.columns[j].missingRate, Rat(1, 5))
   THEN <<[category |-> "data_quality", priority |-> "high", column |-> <<>>]>>
   ELSE <<>>)
  \o (IF /\ Cardinality({j \in 1..Len(data.columns) :
                            data.columns[j].type = "numerical"}) >= 2
          /\ \E a, b \in NumericalNames :
               /\ a # b
               /\ NumGt(MathAbs(analysis[1].correlations[a][b]), Rat(7, 10))
      THEN <<[category |-> "analysis", priority |-> "medium", column |-> <<>>]>>
      ELSE <<>>)
  \o (IF \E i \in 1..Len(analysis[1].anomalies) :
            /\ analysis[1].anomalies[i].type = "outlier"
            /\ analysis[1].anomalies[i].severity = "high"
      THEN <<[category |-> "preprocessing", priority |-> "medium", column |-> <<>>]>>
      ELSE <<>>)
  \o HighCardinality(Len(data.columns))

\* C23: generateRecommendations returns, in this order and nothing else: one
\* data_quality/high entry iff a column has missingRate > 0.2; one
\* analysis/medium entry iff there are at least 2 numerical columns and a pair
\* of distinct columns with |correlation| > 0.7; one preprocessing/medium entry
\* iff an outlier anomaly has severity high; one preprocessing/low entry for
\* each categorical column whose uniqueCount > 0.8 * totalRows.
C23_Recommendations ==
  analysis # <<>> =>
    [i \in 1..Len(analysis[1].recommendations) |->
       [category |-> analysis[1].recommendations[i].category,
        priority |-> analysis[1].recommendations[i].priority,
        column |-> analysis[1].recommendations[i].column]]
    = ExpectedRecommendations

\* a table with a gap and two strongly correlated columns: two entries
C23_Witness ==
  /\ analysis # <<>>
  /\ Len(analysis[1].recommendations) = 2
  /\ analysis[1].recommendations[1].category = "data_quality"
  /\ analysis[1].recommendations[2].category = "analysis"

\* the k-th smallest of the numbers
KthSmallest(numbers, k) ==
  CHOOSE x \in Range(numbers) : IsKthSmallest(numbers, x, k)

\* the percentile p of the numbers by linear interpolation at the index
\* p/100 * (n - 1) of their ascending order
LinearPercentile(numbers, p) ==
  LET position == p * (Len(numbers) - 1)
      lower == position \div 100
      weight == Rat(position % 100, 100)
  IN IF position % 100 = 0 THEN KthSmallest(numbers, lower + 1)
     ELSE NumAdd(NumMul(KthSmallest(numbers, lower + 1), NumSub(One, weight)),
                 NumMul(KthSmallest(numbers, lower + 2), weight))

\* the numeric values of column j, as numbers
NumericValuesOf(j) ==
  LET numeric == SelectSeq(data.columns[j].values, IsNumericValue)
  IN [i \in 1..Len(numeric) |-> Number(numeric[i])]

\* v lies outside the fences q1 - 1.5 * iqr and q3 + 1.5 * iqr
OutsideFences(v, q1, q3) ==
  \/ NumLt(v, NumSub(q1, NumMul(Rat(3, 2), NumSub(q3, q1))))
  \/ NumGt(v, NumAdd(q3, NumMul(Rat(3, 2), NumSub(q3, q1))))

\* C24: for a numerical column with numeric values, the reported q1 and q3
\* are the linear-interpolation percentiles 25 and 75 at index p/100 * (n - 1)
\* of the sorted numeric values, rounded to 2 decimals, and outliers holds
\* exactly the numeric values outside the fences of the unrounded q1 and q3.
C24_QuartilesAndOutliers ==
  analysis # <<>> =>
    \A j \in 1..Len(data.columns) :
      (analysis[1].columnStats[j].numerical # <<>> /\ NumericValuesOf(j) # <<>>) =>
        LET numbers == NumericValuesOf(j)
            st == analysis[1].columnStats[j].numerical[1]
            q1 == LinearPercentile(numbers, 25)
            q3 == LinearPercentile(numbers, 75)
        IN /\ st.q1 = toFixed(q1, 2)
           /\ st.q3 = toFixed(q3, 2)
           /\ st.outliers = SelectSeq(numbers, LAMBDA v : OutsideFences(v, q1, q3))

\* a column with an outlier whose q3 lies between two of its values and is
\* changed by the rounding
C24_Witness ==
  /\ analysis # <<>>
  /\ analysis[1].columnStats[1].numerical # <<>>
  /\ Len(NumericValuesOf(1)) = 4
  /\ Len(analysis[1].columnStats[1].numerical[1].outliers) = 1
  /\ LinearPercentile(NumericValuesOf(1), 75) \notin Range(NumericValuesOf(1))
  /\ analysis[1].columnStats[1].numerical[1].q3 # LinearPercentile(NumericValuesOf(1), 75)

\* the duplicate_values anomalies reported for the column called name
DuplicateAnomalies(name) ==
  SelectSeq(analysis[1].anomalies,
            LAMBDA a : a.type = "duplicate_values" /\ a.column = name)

\* C25: detectAnomalies emits a duplicate_values anomaly, of severity medium,
\* for a column if and only if the column is not categorical and
\* 1 - uniqueCount / nonMissingCount > 0.8, both counts over the non-missing
\* values of the column; a column without a non-missing value yields none.
C25_DuplicateValuesAnomaly ==
  analysis # <<>> =>
    \A j \in 1..Len(data.columns) :
      LET present == PresentValues(data.columns[j].values)
          uniqueCount == Cardinality(Range(present))
          found == DuplicateAnomalies(data.columns[j].name)
          due == /\ data.columns[j].type # "categorical"
                 /\ Len(present) > 0
                 /\ 10 * (Len(present) - uniqueCount) > 8 * Len(present)
      IN /\ Len(found) = IF due THEN 1 ELSE 0
         /\ \A i \in 1..Len(found) : found[i].severity = "medium"

ZeroStats ==
  [mean |-> Zero, median |-> Zero, std |-> Zero, min |-> Zero, max |-> Zero,
   q1 |-> Zero, q3 |-> Zero, outliers |-> <<>>]

\* C26: a numerical column without a numeric-coercible non-missing value has
\* the statistics mean, median, std, min, max, q1, q3 all 0 and no outliers;
\* and missing cells never enter the computation: the statistics of a column
\* are those of its non-missing cells.
C26_MissingCellsExcluded ==
  analysis # <<>> =>
    \A j \in 1..Len(data.columns) :
      analysis[1].columnStats[j].numerical # <<>> =>
        LET present == PresentValues(data.columns[j].values)
            st == analysis[1].columnStats[j].numerical[1]
        IN /\ (\A i \in 1..Len(present) : isNaN(Number(present[i]))) => st = ZeroStats
           /\ st = calculateNumericalStats(present)

\* the names of the columns of the table are pairwise distinct
DistinctNames(d) ==
  \A a, b \in 1..Len(d.columns) : a # b => d.columns[a].name # d.columns[b].name

\* the table out keeps the columns of the table in, in their order, and has
\* distinct names if in has
KeepsColumns(in, out) ==
  /\ Len(out.columns) >= Len(in.columns)
  /\ \A j \in 1..Len(in.columns) : out.columns[j].name = in.columns[j].name
  /\ DistinctNames(in) => DistinctNames(out)

\* C27: the table returned by cleanData keeps the original columns in their
\* order, and its column names are pairwise distinct whenever those of the
\* input are, also when the input is the output of a previous cleanData.
C27_DistinctNamesKept ==
  /\ cleaned # <<>> => KeepsColumns(data, cleaned[1].cleanedData)
  /\ recleaned # <<>> => KeepsColumns(cleaned[1].cleanedData, recleaned[1].cleanedData)

\* the number of missing cells of values
MissingCells(values) == Cardinality({i \in 1..Len(values) : isMissing(values[i])})

\* every column of the input of a pass is, in the output, completely filled or
\* completely missing, with its recorded statistics those of its values
FilledOrEmpty(in, out) ==
  \A j \in 1..Len(in.columns) :
    LET column == out.columns[j]
    IN /\ column.missingCount \in {0, out.totalRows}
       /\ column.missingCount = MissingCells(column.values)
       /\ column.missingRate = Rat(MissingCells(column.values), out.totalRows)

\* C28: after cleanData every data column is completely filled or completely
\* missing: its recorded missingCount is 0 or totalRows, and the recorded
\* missingCount and missingRate are the number of missing cells of the
\* cleaned values and that number divided by totalRows.
C28_FilledOrEmpty ==
  /\ cleaned # <<>> => FilledOrEmpty(data, cleaned[1].cleanedData)
  /\ recleaned # <<>> => FilledOrEmpty(cleaned[1].cleanedData, recleaned[1].cleanedData)

\* a table with a column that had a gap and is filled, and a column that is
\* missing throughout
C28_Witness ==
  /\ cleaned # <<>>
  /\ Len(data.columns) = 2
  /\ data.totalRows = 3
  /\ MissingCells(data.columns[1].values) = 3
  /\ cleaned[1].cleanedData.columns[1].missingCount = 3
  /\ MissingCells(data.columns[2].values) = 1
  /\ cleaned[1].cleanedData.columns[2].missingCount = 0

\* the number of cells imputed in a column by the rule of the three sources:
\* cells missing in the raw column, sentinels replaced by the normalizer,
\* cells the coercer could not parse
ImputedOfSteps(raw, conv) ==
  IF \A i \in 1..Len(raw) : isMissing(conv[i]) THEN 0
  ELSE Cardinality({i \in 1..Len(raw) : isMissing(raw[i])})
       + Cardinality({i \in 1..Len(raw) : IsSentinel(raw[i])})
       + Cardinality({i \in 1..Len(raw) : /\ ~isMissing(raw[i]) /\ ~IsSentinel(raw[i])
                                           /\ isMissing(conv[i])})

\* the report of the column names as imputed the cells of the three sources;
\* conv is the column after normalization and coercion
ImputedAsStated(column, report, legacy) ==
  \A conv \in {convertTypes(fixErroneousValues(column.values, column.type).values,
                            column, legacy).values} :
    report.missingValuesImputed = ImputedOfSteps(column.values, conv)

\* C29: for a column that still has a non-missing value after normalization
\* and coercion, the report's missingValuesImputed is the number of cells
\* missing in the raw column plus the sentinels replaced plus the cells the
\* coercer turned into missing; for a column with none left it is 0.
C29_ImputedBySource ==
  /\ cleaned # <<>> =>
       \A j \in 1..Len(data.columns) :
         ImputedAsStated(data.columns[j], cleaned[1].report.columnReports[j],
                         legacyDates)
  /\ recleaned # <<>> =>
       \A j \in 1..Len(cleaned[1].cleanedData.columns) :
         ImputedAsStated(cleaned[1].cleanedData.columns[j],
                         recleaned[1].report.columnReports[j], legacyDates)

\* a price column with a missing cell, a value that cannot be parsed and a
\* value that can: two cells imputed
C29_Witness ==
  /\ cleaned # <<>>
  /\ data.columns[1].name = NamePrice
  /\ data.columns[1].values = <<Null, Str(<<"a", "b", "c">>), Str(<<"$", "1", "0">>)>>
  /\ cleaned[1].report.columnReports[1].missingValuesImputed = 2
  /\ cleaned[1].cleanedData.columns[1].values[2] = Num(Int2Num(10))

\* the objects of the table at ref: the table, the array of its columns, the
\* column objects and the arrays of their values
ObjectsOfTable(h, ref) ==
  {ref, h[ref].columns}
  \cup Range(h[h[ref].columns].items)
  \cup {h[c].values : c \in Range(h[h[ref].columns].items)}

\* C22: cleanData never mutates its input: after the call the table object
\* passed, its list of columns, every column object (type, missingCount,
\* missingRate, the reference to its values) and every array of values are
\* what they were before the call.
C22_InputNotMutated ==
  heapBefore # <<>> =>
    /\ \A id \in ObjectsOfTable(heapBefore[1], heapInput) : heap[id] = heapBefore[1][id]
    /\ TableValue(heap, heapInput) = TableValue(heapBefore[1], heapInput)

\* a second call, on a table of which the first call changed a row, returned
\* a table of its own
C22_Witness ==
  /\ Len(heapResult) = 2
  /\ heapResult[2] \notin ObjectsOfTable(heapBefore[1], heapInput)
  /\ \E i \in 1..data.totalRows :
       heap[heap[heap[heap[heapResult[1]].columns].items[Len(data.columns) + 1]].values].items[i]
         = Bool(TRUE)
  /\ TableValue(heap, heapResult[2]).totalColumns = data.totalColumns + 2

\* C30: under any interleaving of file loads, the delayed cleaning and the
\* back action, the Dashboard's cleanedData and cleaningReport are both null
\* or both set; when cleanedData is set it is the result of cleaning the
\* table in App's data; the table analysed and exported is the loaded table
\* or its own cleaned version.
CleanedOfLoaded ==
  /\ appData # <<>>
  /\ cleanedData[1] = cleanData(appData[1], legacyDates).cleanedData

C30_CleanedIsOfLoadedTable ==
  /\ (cleanedData = <<>>) <=> (cleaningReport = <<>>)
  /\ cleanedData # <<>> => CleanedOfLoaded
  /\ DashboardMounted =>
       CurrentData \in {appData[1], cleanData(appData[1], legacyDates).cleanedData}


====
